---- MODULE Spec2Model ----
(***************************************************************************)
(* A model of the symbol-discovery core of spimdisasm: the address algebra *)
(* (RomVramRange), the segment builder (add_user_symbol), the builder      *)
(* pipeline (finish_symbols, preanalyze_*, process) and the preheater's    *)
(* ReferencedAddress record.                                               *)
(*                                                                         *)
(* The module holds three state machines over disjoint variables, each     *)
(* with its own specification:                                             *)
(*   SpecRange     RomVramRange::new, vram_fom_rom, rom_from_vram          *)
(*   Spec          GlobalSegmentBuilder -> ContextBuilderFinderHeater ->   *)
(*                 ContextBuilderFinderHeaterOverlays                      *)
(*   SpecRef       one ReferencedAddress and its votes                     *)
(***************************************************************************)
EXTENDS Integers, Sequences, FiniteSets, TLC

VARIABLES
    range,       \* SpecRange: the value RomVramRange::new returned (or not yet / panicked)
    conv,        \* SpecRange: the last conversion call, its argument and its result
    builder,     \* Spec: the GlobalSegmentBuilder (its inner SegmentBuilder), or moved out
    lastAdd,     \* Spec: what the last add_user_symbol call returned to its caller
    created,     \* Spec: history, the arguments of the successful call that created each record
    segHeater,   \* Spec: the GlobalSegmentHeater that finish_symbols returned, or none yet
    finder,      \* Spec: the ContextBuilderFinderHeater, or not built yet / moved out
    lastPre,     \* Spec: the last preanalyze_* call and what its caller got back
    gathered,    \* Spec: history, the preheater's reference table as of the last preanalyze_*
    overlays,    \* Spec: the ContextBuilderFinderHeaterOverlays that process() returned
    ra,          \* SpecRef: one ReferencedAddress
    voted,       \* SpecRef: history, the values voted so far for each histogram of ra
    meta,        \* SpecSym: one SymbolMetadata
    declared,    \* SpecSym: history, the last value each setter was given and the last call
    ctx,         \* SpecData: the Context (its global segment: symbols and references)
    sec,         \* SpecData: the section being built by DataSection::new / SectionNoload::new
    text,        \* SpecText: the text section being built and the segment it registers in
    func         \* SpecFunc: one function built from its instructions

rangeVars == <<range, conv>>
pipeVars == <<builder, lastAdd, created, segHeater, finder, lastPre, gathered, overlays>>
refVars == <<ra, voted>>
symVars == <<meta, declared>>
dataVars == <<ctx, sec>>
textVars == <<text, func>>
restVars == <<symVars, dataVars, textVars>>
vars == <<range, conv, builder, lastAdd, created, segHeater, finder, lastPre, gathered,
          overlays, ra, voted, meta, declared, ctx, sec, text, func>>

\* Option<T>: None, or Some(v).
None == [some |-> FALSE]
Some(v) == [some |-> TRUE, v |-> v]

(***************************************************************************)
(* Address algebra                                                         *)
(***************************************************************************)

\* Largest address of the universe the ranges and conversion arguments are drawn from.
MaxAddr == 7

Addrs == 0 .. MaxAddr

\* AddressRange<T>: closed-open [start, end), start <= end.
AddressRanges == {r \in [start : Addrs, end : Addrs] : r.start <= r.end}

RangeSize(r) == r.end - r.start

\* AddressRange::in_range
in_range(r, a) == r.start <= a /\ a < r.end

\* A mutant of the assertions: the alignment assertion is missing.
RomVramRange_asserts_noalign(rom, vram) ==
    /\ RangeSize(vram) >= RangeSize(rom)
    /\ RangeSize(rom) > 0
    /\ RangeSize(vram) > 0

\* The assertions of RomVramRange::new; the constructor panics when one fails.
RomVramRange_asserts(rom, vram) ==
    /\ RangeSize(vram) >= RangeSize(rom)
    /\ RangeSize(rom) > 0
    /\ RangeSize(vram) > 0
    /\ vram.start % 4 = rom.start % 4

RomVramRange_new(rom, vram) ==
    IF RomVramRange_asserts(rom, vram)
    THEN [state |-> "built", rom |-> rom, vram |-> vram]
    ELSE [state |-> "panicked"]

in_rom_range(r, rom) == in_range(r.rom, rom)
in_vram_range(r, vram) == in_range(r.vram, vram)

\* A mutant of vram_fom_rom: the end of the rom range is taken as inside it.
vram_fom_rom_inclusive(r, rom) ==
    IF r.rom.start <= rom /\ rom <= r.rom.end
    THEN Some(r.vram.start + (rom - r.rom.start))
    ELSE None

vram_fom_rom(r, rom) ==
    IF in_range(r.rom, rom)
    THEN Some(r.vram.start + (rom - r.rom.start))
    ELSE None

rom_from_vram(r, vram) ==
    IF in_range(r.vram, vram)
    THEN Some(r.rom.start + (vram - r.vram.start))
    ELSE None

NoConv == [op |-> "none"]

\* RomVramRange::new(rom, vram)
NewRange ==
    /\ range.state = "none"
    /\ \E rom \in AddressRanges, vram \in AddressRanges :
        /\ range' = RomVramRange_new(rom, vram)
        /\ conv' = NoConv
        /\ UNCHANGED <<pipeVars, refVars, restVars>>

\* r.vram_fom_rom(rom)
VramFromRom ==
    /\ range.state = "built"
    /\ \E rom \in Addrs :
        conv' = [op |-> "vram_fom_rom", arg |-> rom, res |-> vram_fom_rom(range, rom),
                 back |-> FALSE]
    /\ UNCHANGED <<range, pipeVars, refVars, restVars>>

\* r.rom_from_vram(vram)
RomFromVram ==
    /\ range.state = "built"
    /\ \E vram \in Addrs :
        conv' = [op |-> "rom_from_vram", arg |-> vram, res |-> rom_from_vram(range, vram),
                 back |-> FALSE]
    /\ UNCHANGED <<range, pipeVars, refVars, restVars>>

\* The caller converts the address it just got back with the other conversion.
ConvertBack ==
    /\ range.state = "built"
    /\ conv.op \in {"vram_fom_rom", "rom_from_vram"}
    /\ ~conv.back
    /\ conv.res.some
    /\ conv' = IF conv.op = "vram_fom_rom"
               THEN [op |-> "rom_from_vram", arg |-> conv.res.v,
                     res |-> rom_from_vram(range, conv.res.v), back |-> TRUE,
                     orig |-> conv.arg]
               ELSE [op |-> "vram_fom_rom", arg |-> conv.res.v,
                     res |-> vram_fom_rom(range, conv.res.v), back |-> TRUE,
                     orig |-> conv.arg]
    /\ UNCHANGED <<range, pipeVars, refVars, restVars>>

(***************************************************************************)
(* ReferencedAddress: the preheater's record of one referenced address     *)
(***************************************************************************)

\* The most votes one histogram entry, and the reference counter, may reach.
MaxVotes == 2

\* UnorderedMap<K, u32> is a function from the keys present to their counts.
EmptyMap == [k \in {} |-> 0]

\* *map.entry(key).or_default() += 1
Bump(map, key) ==
    IF key \in DOMAIN map
    THEN [map EXCEPT ![key] = @ + 1]
    ELSE [k \in DOMAIN map \cup {key} |-> IF k = key THEN 1 ELSE map[k]]

CountOf(map, key) == IF key \in DOMAIN map THEN map[key] ELSE 0

\* ReferencedAddress::new
ReferencedAddress_new(vram) ==
    [vram |-> vram, sym_type |-> EmptyMap, sizes |-> EmptyMap, alignments |-> EmptyMap,
     reference_count |-> 0]

\* A mutant of sym_type(): the type with the most votes wins when it is unique.
sym_type_majority(r) ==
    LET h == r.sym_type
        top == {t \in DOMAIN h : \A u \in DOMAIN h : u = t \/ h[u] < h[t]}
    IN  IF top # {} THEN Some(CHOOSE t \in top : TRUE) ELSE None

\* ReferencedAddress::sym_type
sym_type(r) ==
    IF Cardinality(DOMAIN r.sym_type) = 1
    THEN Some(CHOOSE t \in DOMAIN r.sym_type : TRUE)
    ELSE None

\* A mutant of size(): any voted size is reported, even among several entries.
size_any_some(r) ==
    IF \E s \in DOMAIN r.sizes : s.some
    THEN CHOOSE s \in DOMAIN r.sizes : s.some
    ELSE None

\* ReferencedAddress::size: the single key of the histogram, itself an Option<Size>
size(r) ==
    IF Cardinality(DOMAIN r.sizes) = 1
    THEN CHOOSE s \in DOMAIN r.sizes : TRUE
    ELSE None

\* ReferencedAddress::alignment: the single key of the histogram, itself an Option<u8>
alignment(r) ==
    IF Cardinality(DOMAIN r.alignments) = 1
    THEN CHOOSE a \in DOMAIN r.alignments : TRUE
    ELSE None

reference_counter(r) == r.reference_count

set_sym_type(r, t) == [r EXCEPT !.sym_type = Bump(@, t)]
set_size(r, val) == [r EXCEPT !.sizes = Bump(@, val)]
set_alignment(r, val) == [r EXCEPT !.alignments = Bump(@, val)]
increment_references(r) == [r EXCEPT !.reference_count = @ + 1]

\* The types, sizes and alignments the votes are drawn from.
VoteTypes == {"Function", "BranchLabel", "Word"}
VoteSizes == {None, Some(4)}
VoteAlignments == {None, Some(4)}

VoteType ==
    \E t \in VoteTypes :
        /\ CountOf(ra.sym_type, t) < MaxVotes
        /\ ra' = set_sym_type(ra, t)
        /\ voted' = [voted EXCEPT !.types = @ \cup {t}]
        /\ UNCHANGED <<rangeVars, pipeVars, restVars>>

VoteSize ==
    \E s \in VoteSizes :
        /\ CountOf(ra.sizes, s) < MaxVotes
        /\ ra' = set_size(ra, s)
        /\ voted' = [voted EXCEPT !.sizes = @ \cup {s}]
        /\ UNCHANGED <<rangeVars, pipeVars, restVars>>

VoteAlignment ==
    \E a \in VoteAlignments :
        /\ CountOf(ra.alignments, a) < MaxVotes
        /\ ra' = set_alignment(ra, a)
        /\ voted' = [voted EXCEPT !.alignments = @ \cup {a}]
        /\ UNCHANGED <<rangeVars, pipeVars, restVars>>

IncrementReferences ==
    /\ ra.reference_count < MaxVotes
    /\ ra' = increment_references(ra)
    /\ UNCHANGED <<voted, rangeVars, pipeVars, restVars>>

(***************************************************************************)
(* SymbolMetadata and the segment builder                                  *)
(***************************************************************************)

\* SymbolType::is_label
is_label(t) == t \in {"BranchLabel", "JumptableLabel", "GccExceptTableLabel"}

\* SymbolMetadata::new
SymbolMetadata_new(generated_by, vram) ==
    [generated_by |-> generated_by, vram |-> vram, rom |-> None,
     user_declared_name |-> None,
     user_declared_size |-> None, autodetected_size |-> None,
     user_declared_type |-> None, autodetected_type |-> None,
     section_type |-> None, is_defined |-> FALSE, reference_counter |-> 0,
     auto_created_pad_by |-> None]

\* SymbolMetadata::size
SymbolMetadata_size(sym) ==
    IF sym.user_declared_size.some THEN sym.user_declared_size
    ELSE IF sym.autodetected_size.some THEN sym.autodetected_size
    ELSE None

\* SymbolMetadata::sym_type
SymbolMetadata_sym_type(sym) ==
    IF sym.user_declared_type.some THEN sym.user_declared_type
    ELSE sym.autodetected_type

\* A mutant of set_type: the last type set wins, whatever its source.
set_type_last_wins(sym, new_type, generated_by) ==
    IF generated_by = "Autogenerated"
    THEN [sym EXCEPT !.autodetected_type = Some(new_type), !.user_declared_type = None]
    ELSE [sym EXCEPT !.user_declared_type = Some(new_type)]

\* SymbolMetadata::set_type
set_type(sym, new_type, generated_by) ==
    IF generated_by = "Autogenerated"
    THEN [sym EXCEPT !.autodetected_type = Some(new_type)]
    ELSE [sym EXCEPT !.user_declared_type = Some(new_type)]

\* SymbolMetadata::is_trustable_function
is_trustable_function(sym) == TRUE

\* AddendedOrderedMap<Vram, SymbolMetadata>: a function from the keys present to
\* their records. find(key, settings): the record at the greatest key <= `key`, when
\* that key is `key` itself or, with addend tolerance, when `key` falls inside
\* [vram, vram + size) of that record.
AddendedOrderedMap_find(map, key, check_addend) ==
    LET below == {k \in DOMAIN map : k <= key}
    IN  IF below = {} THEN None
        ELSE LET k == CHOOSE x \in below : \A y \in below : y <= x
                 siz == SymbolMetadata_size(map[k])
             IN  IF k = key THEN Some(k)
                 ELSE IF check_addend /\ siz.some /\ key < k + siz.v THEN Some(k)
                 ELSE None

\* AddendedOrderedMap::find_mut_or_insert_with: (the map afterwards, the key of the
\* record handed back, newly_created).
find_mut_or_insert_with(map, key, check_addend, default) ==
    LET found == AddendedOrderedMap_find(map, key, check_addend)
    IN  IF found.some
        THEN [map |-> map, key |-> found.v, newly_created |-> FALSE]
        ELSE [map |-> [k \in DOMAIN map \cup {default.vram} |->
                          IF k = default.vram THEN default ELSE map[k]],
              key |-> default.vram, newly_created |-> TRUE]

\* SegmentBuilder::new
SegmentBuilder_new(ranges, name) ==
    [state |-> "live", ranges |-> ranges, name |-> name,
     user_symbols |-> [k \in {} |-> 0], prioritised_overlays |-> <<>>]

\* A mutant of add_user_symbol: a duplicated declaration overwrites the record's
\* name, rom and type before the error is returned.
add_user_symbol_overwrite(seg, name, vram, rom, typ) ==
    IF rom.some /\ ~in_rom_range(seg.ranges, rom.v)
    THEN [seg |-> seg, result |-> [kind |-> "RomOutOfRange"]]
    ELSE IF ~in_vram_range(seg.ranges, vram)
    THEN [seg |-> seg, result |-> [kind |-> "VramOutOfRange"]]
    ELSE
        LET check_addend == ~(typ.some /\ is_label(typ.v))
            got == find_mut_or_insert_with(seg.user_symbols, vram, check_addend,
                                           SymbolMetadata_new("UserDeclared", vram))
            sym == got.map[got.key]
            named == [sym EXCEPT !.user_declared_name = Some(name), !.rom = rom]
            typed == IF typ.some THEN set_type(named, typ.v, "UserDeclared") ELSE named
        IN  IF sym.vram # vram
               /\ ~(is_trustable_function(sym) /\ typ.some /\ is_label(typ.v))
            THEN [seg |-> seg, result |-> [kind |-> "Overlap", other_vram |-> sym.vram]]
            ELSE IF ~got.newly_created
            THEN [seg |-> [seg EXCEPT !.user_symbols = [got.map EXCEPT ![got.key] = typed]],
                  result |-> [kind |-> "Duplicated", other_vram |-> sym.vram]]
            ELSE [seg |-> [seg EXCEPT !.user_symbols = [got.map EXCEPT ![got.key] = typed]],
                  result |-> [kind |-> "Ok", sym |-> got.key]]

\* A mutant of add_user_symbol: the rom of the declaration is not stored.
add_user_symbol_norom(seg, name, vram, rom, typ) ==
    IF rom.some /\ ~in_rom_range(seg.ranges, rom.v)
    THEN [seg |-> seg, result |-> [kind |-> "RomOutOfRange"]]
    ELSE IF ~in_vram_range(seg.ranges, vram)
    THEN [seg |-> seg, result |-> [kind |-> "VramOutOfRange"]]
    ELSE
        LET check_addend == ~(typ.some /\ is_label(typ.v))
            got == find_mut_or_insert_with(seg.user_symbols, vram, check_addend,
                                           SymbolMetadata_new("UserDeclared", vram))
            sym == got.map[got.key]
            named == [sym EXCEPT !.user_declared_name = Some(name)]
            typed == IF typ.some THEN set_type(named, typ.v, "UserDeclared") ELSE named
        IN  IF sym.vram # vram
               /\ ~(is_trustable_function(sym) /\ typ.some /\ is_label(typ.v))
            THEN [seg |-> seg, result |-> [kind |-> "Overlap", other_vram |-> sym.vram]]
            ELSE IF ~got.newly_created
            THEN [seg |-> seg, result |-> [kind |-> "Duplicated", other_vram |-> sym.vram]]
            ELSE [seg |-> [seg EXCEPT !.user_symbols = [got.map EXCEPT ![got.key] = typed]],
                  result |-> [kind |-> "Ok", sym |-> got.key]]

\* A mutant of add_user_symbol: the vram range check is missing.
add_user_symbol_norange(seg, name, vram, rom, typ) ==
    IF rom.some /\ ~in_rom_range(seg.ranges, rom.v)
    THEN [seg |-> seg, result |-> [kind |-> "RomOutOfRange"]]
    ELSE
        LET check_addend == ~(typ.some /\ is_label(typ.v))
            got == find_mut_or_insert_with(seg.user_symbols, vram, check_addend,
                                           SymbolMetadata_new("UserDeclared", vram))
            sym == got.map[got.key]
            named == [sym EXCEPT !.user_declared_name = Some(name), !.rom = rom]
            typed == IF typ.some THEN set_type(named, typ.v, "UserDeclared") ELSE named
        IN  IF sym.vram # vram
               /\ ~(is_trustable_function(sym) /\ typ.some /\ is_label(typ.v))
            THEN [seg |-> seg, result |-> [kind |-> "Overlap", other_vram |-> sym.vram]]
            ELSE IF ~got.newly_created
            THEN [seg |-> seg, result |-> [kind |-> "Duplicated", other_vram |-> sym.vram]]
            ELSE [seg |-> [seg EXCEPT !.user_symbols = [got.map EXCEPT ![got.key] = typed]],
                  result |-> [kind |-> "Ok", sym |-> got.key]]

\* SegmentBuilder::add_user_symbol: (the builder afterwards, the Result handed back).
\* Ok carries the key of the record the returned &mut points at; an error carries its
\* kind and, for Overlap and Duplicated, the vram of the record that was in the way.
add_user_symbol(seg, name, vram, rom, typ) ==
    IF rom.some /\ ~in_rom_range(seg.ranges, rom.v)
    THEN [seg |-> seg, result |-> [kind |-> "RomOutOfRange"]]
    ELSE IF ~in_vram_range(seg.ranges, vram)
    THEN [seg |-> seg, result |-> [kind |-> "VramOutOfRange"]]
    ELSE
        LET check_addend == ~(typ.some /\ is_label(typ.v))
            got == find_mut_or_insert_with(seg.user_symbols, vram, check_addend,
                                           SymbolMetadata_new("UserDeclared", vram))
            sym == got.map[got.key]
            named == [sym EXCEPT !.user_declared_name = Some(name), !.rom = rom]
            typed == IF typ.some THEN set_type(named, typ.v, "UserDeclared") ELSE named
        IN  IF sym.vram # vram
               /\ ~(is_trustable_function(sym) /\ typ.some /\ is_label(typ.v))
            THEN [seg |-> seg, result |-> [kind |-> "Overlap", other_vram |-> sym.vram]]
            ELSE IF ~got.newly_created
            THEN [seg |-> seg, result |-> [kind |-> "Duplicated", other_vram |-> sym.vram]]
            ELSE [seg |-> [seg EXCEPT !.user_symbols = [got.map EXCEPT ![got.key] = typed]],
                  result |-> [kind |-> "Ok", sym |-> got.key]]

(***************************************************************************)
(* The builder pipeline                                                    *)
(***************************************************************************)

Moved == [state |-> "moved"]
NotYet == [state |-> "none"]

\* A mutant of finish_symbols: the builder is cloned instead of consumed.
finish_symbols_clone(b) ==
    [self |-> b,
     heater |-> [state |-> "live", ranges |-> b.ranges,
                 prioritised_overlays |-> b.prioritised_overlays,
                 user_symbols |-> b.user_symbols]]

\* GlobalSegmentBuilder::finish_symbols(self): the builder is consumed, and its ranges,
\* prioritised overlays and user symbols go to GlobalSegmentHeater::new.
finish_symbols(b) ==
    [self |-> Moved,
     heater |-> [state |-> "live", ranges |-> b.ranges,
                 prioritised_overlays |-> b.prioritised_overlays,
                 user_symbols |-> b.user_symbols]]

\* Preheater::new
Preheater_new == [references |-> [k \in {} |-> 0], preheated |-> {}]

\* GlobalConfig::new(Endian::Big)
GlobalConfig_new == [endian |-> "Big", gp_config |-> None]

\* The SegmentMetadata of the global segment, made of what the GlobalSegmentHeater
\* holds; its reference table starts empty.
SegmentMetadata_new(h) ==
    [ranges |-> h.ranges, name |-> None, prioritised_overlays |-> h.prioritised_overlays,
     symbols |-> h.user_symbols, preheater |-> Preheater_new]

\* ContextBuilderFinderHeater::new
ContextBuilderFinderHeater_new(global_config, global_segment, overlay_segments) ==
    [state |-> "live", global_config |-> global_config, global_segment |-> global_segment,
     overlay_segments |-> overlay_segments, preheater |-> Preheater_new]

\* PreheatError::new_already_preheated
new_already_preheated(segment_name, section_rom, section_vram) ==
    [kind |-> "AlreadyPreheated", segment_name |-> segment_name,
     section_rom |-> section_rom, section_vram |-> section_vram]

\* One vote of the scan for `ref`: the entry of ref.vram is created when absent, the
\* type is voted and the reference counted.
RecordVote(refs, ref) ==
    LET old == IF ref.vram \in DOMAIN refs THEN refs[ref.vram]
               ELSE ReferencedAddress_new(ref.vram)
        new == increment_references(set_sym_type(old, ref.typ))
    IN  [k \in DOMAIN refs \cup {ref.vram} |-> IF k = ref.vram THEN new ELSE refs[k]]

RECURSIVE RecordVotes(_, _)
RecordVotes(refs, found) ==
    IF found = <<>> THEN refs
    ELSE RecordVotes(RecordVote(refs, Head(found)), Tail(found))

\* Preheater::preheat_text / preheat_data / preheat_rodata / preheat_gcc_except_table:
\* (the preheater afterwards, the Result). A section whose rom was preheated before is
\* refused; otherwise every reference the scan of raw_bytes finds is voted.
preheat(ph, global_segment, section) ==
    IF section.rom \in ph.preheated
    THEN [ph |-> ph,
          result |-> new_already_preheated(global_segment.name, section.rom, section.vram)]
    ELSE [ph |-> [references |-> RecordVotes(ph.references, section.found),
                  preheated |-> ph.preheated \cup {section.rom}],
          result |-> [kind |-> "Ok"]]

\* ContextBuilderFinderHeater::preanalyze_text (and _data, _rodata, _gcc_except_table):
\* (the finder-heater afterwards, the value the caller gets). The methods return ().
preanalyze(f, section) ==
    [self |-> [f EXCEPT !.preheater = preheat(f.preheater, f.global_segment, section).ph],
     returned |-> [kind |-> "Unit"]]

\* ContextBuilderFinderHeater::process(self): the finder-heater is consumed, and
\* ContextBuilderFinderHeaterOverlays::new gets its config, global segment and overlays.
process(f) ==
    [self |-> Moved,
     next |-> [state |-> "live", global_config |-> f.global_config,
               global_segment |-> f.global_segment,
               overlay_segments |-> f.overlay_segments]]

\* The global segment: 4 bytes of rom at 8, loaded at vram 16.
GlobalRanges == RomVramRange_new([start |-> 8, end |-> 12], [start |-> 16, end |-> 20])

\* The arguments add_user_symbol is called with. The declarations pair a name with a
\* rom: no rom, the start of the rom range, and its end, which is outside it. The vrams
\* are the first two addresses of the segment and its end, which is outside it.
DeclArgs ==
    {[name |-> "sym", rom |-> None],
     [name |-> "s@m", rom |-> Some(GlobalRanges.rom.start)],
     [name |-> "far", rom |-> Some(GlobalRanges.rom.end)]}
VramArgs ==
    {GlobalRanges.vram.start, GlobalRanges.vram.start + 1, GlobalRanges.vram.end}
TypeArgs == {None, Some("Function"), Some("BranchLabel")}
SizeArgs == {None, Some(2)}

\* How many sections of the global segment are handed to preanalyze_*.
MaxSections == 2

\* Section i lies one address after section i - 1. The scan of its bytes finds a call
\* to the start of the segment and a reference to the address past the sections, read
\* as a word by the even sections and as a float by the odd ones.
Sections ==
    {[rom |-> GlobalRanges.rom.start + i, vram |-> GlobalRanges.vram.start + i,
      found |-> <<[vram |-> GlobalRanges.vram.start, typ |-> "Function"],
                  [vram |-> GlobalRanges.vram.start + MaxSections,
                   typ |-> IF i % 2 = 0 THEN "Word" ELSE "Float32"]>>] :
        i \in 0 .. MaxSections - 1}

NoCall == [op |-> "none"]

\* One declaration of a user symbol, as the callers of the builder make it:
\* add_user_symbol, then the declared size is stored through the returned &mut.
AddUserSymbol ==
    /\ builder.state = "live"
    /\ \E decl \in DeclArgs, vram \in VramArgs, typ \in TypeArgs, siz \in SizeArgs :
        LET name == decl.name
            rom == decl.rom
            r == add_user_symbol(builder, name, vram, rom, typ)
        IN  /\ builder' = IF r.result.kind = "Ok" /\ siz.some
                          THEN [r.seg EXCEPT !.user_symbols[r.result.sym].user_declared_size = siz]
                          ELSE r.seg
            /\ lastAdd' = [op |-> "add_user_symbol", vram |-> vram, rom |-> rom,
                           typ |-> typ, result |-> r.result]
            /\ created' = IF r.result.kind = "Ok"
                          THEN [k \in DOMAIN created \cup {vram} |->
                                   IF k = vram
                                   THEN [name |-> name, rom |-> rom,
                                         calls |-> IF vram \in DOMAIN created
                                                   THEN created[vram].calls + 1 ELSE 1]
                                   ELSE created[k]]
                          ELSE created
    /\ UNCHANGED <<segHeater, finder, lastPre, gathered, overlays, rangeVars, refVars, restVars>>

\* builder.finish_symbols()
FinishSymbols ==
    /\ builder.state = "live"
    /\ segHeater.state = "none"
    /\ builder' = finish_symbols(builder).self
    /\ segHeater' = finish_symbols(builder).heater
    /\ lastAdd' = NoCall
    /\ UNCHANGED <<created, finder, lastPre, gathered, overlays, rangeVars, refVars, restVars>>

\* The context builder hands the global segment on to ContextBuilderFinderHeater::new.
NewFinderHeater ==
    /\ segHeater.state = "live"
    /\ finder.state = "none"
    /\ finder' = ContextBuilderFinderHeater_new(GlobalConfig_new,
                                                SegmentMetadata_new(segHeater),
                                                [k \in {} |-> 0])
    /\ segHeater' = Moved
    /\ UNCHANGED <<builder, lastAdd, created, lastPre, gathered, overlays, rangeVars, refVars, restVars>>

\* One preanalyze_* call on `section`: the finder-heater is updated in place, and the
\* call is logged with whether that rom had been preheated before and what came back.
PreanalyzeCall(method, section) ==
    /\ finder' = preanalyze(finder, section).self
    /\ lastPre' = [op |-> method, rom |-> section.rom, vram |-> section.vram,
                   already |-> section.rom \in finder.preheater.preheated,
                   returned |-> preanalyze(finder, section).returned]
    /\ gathered' = finder'.preheater.references
    /\ UNCHANGED <<builder, lastAdd, created, segHeater, overlays, rangeVars, refVars, restVars>>

\* finder_heater.preanalyze_text(settings, raw_bytes, rom, vram)
PreanalyzeText ==
    /\ finder.state = "live"
    /\ \E section \in Sections : PreanalyzeCall("preanalyze_text", section)

\* finder_heater.preanalyze_data(settings, raw_bytes, rom, vram)
PreanalyzeData ==
    /\ finder.state = "live"
    /\ \E section \in Sections : PreanalyzeCall("preanalyze_data", section)

\* finder_heater.preanalyze_rodata(settings, raw_bytes, rom, vram)
PreanalyzeRodata ==
    /\ finder.state = "live"
    /\ \E section \in Sections : PreanalyzeCall("preanalyze_rodata", section)

\* finder_heater.preanalyze_gcc_except_table(settings, raw_bytes, rom, vram)
PreanalyzeGccExceptTable ==
    /\ finder.state = "live"
    /\ \E section \in Sections : PreanalyzeCall("preanalyze_gcc_except_table", section)

\* finder_heater.process()
Process ==
    /\ finder.state = "live"
    /\ overlays.state = "none"
    /\ finder' = process(finder).self
    /\ overlays' = process(finder).next
    /\ UNCHANGED <<builder, lastAdd, created, segHeater, lastPre, gathered, rangeVars, refVars, restVars>>

(***************************************************************************)
(* SymbolMetadata: precedence of its sources, and its display name         *)
(***************************************************************************)

\* The vram of the one SymbolMetadata of SpecSym.
SymVram == 1040

\* Names are sequences of characters.
NameArgs == {<<"s", "y", "m">>, <<"s", "@", "m">>}

\* The symbol types of this SymbolMetadata's display (UserCustom is any other type).
SymTypes == {"Function", "BranchLabel", "JumptableLabel", "Jumptable", "GccExceptTable",
             "GccExceptTableLabel", "UserCustom"}

\* The sizes the setters are given.
SymSizes == {4, 8}

\* A mutant of should_escape_symbol: no name is escaped.
should_escape_symbol_never(name) == FALSE

\* should_escape_symbol: name.contains('@')
should_escape_symbol(name) == \E i \in 1 .. Len(name) : name[i] = "@"

HexDigits == <<"0", "1", "2", "3", "4", "5", "6", "7", "8", "9", "A", "B", "C", "D", "E", "F">>

\* Display of Vram: eight upper-case hexadecimal digits.
Vram_display(v) == [i \in 1 .. 8 |-> HexDigits[((v \div (16 ^ (8 - i))) % 16) + 1]]

\* SymbolMetadataNameDisplay::display_type_prefix
display_type_prefix(sym) ==
    LET t == SymbolMetadata_sym_type(sym)
    IN  IF ~t.some THEN <<>>
        ELSE IF t.v = "Function" THEN <<"f", "u", "n", "c", "_">>
        ELSE IF t.v \in {"BranchLabel", "JumptableLabel"} THEN <<".", "L">>
        ELSE IF t.v = "Jumptable" THEN <<"j", "t", "b", "l", "_">>
        ELSE IF t.v = "GccExceptTable" THEN <<"e", "h", "t", "b", "l", "_">>
        ELSE IF t.v = "GccExceptTableLabel" THEN <<"$", "L", "E", "H", "_">>
        ELSE <<>>

\* SymbolMetadataNameDisplay::display_unique_identifier
display_unique_identifier(sym) == Vram_display(sym.vram)

\* SymbolMetadataNameDisplay::autogenerate_name (the section prefix prints nothing)
autogenerate_name(sym) == display_type_prefix(sym) \o display_unique_identifier(sym)

\* Display for SymbolMetadataNameDisplay: what display_name() prints.
display_name(sym) ==
    IF sym.user_declared_name.some
    THEN IF should_escape_symbol(sym.user_declared_name.v)
         THEN <<"\"">> \o sym.user_declared_name.v \o <<"\"">>
         ELSE sym.user_declared_name.v
    ELSE autogenerate_name(sym)

\* SymbolDataProperties::apply_to_metadata. The parent section and the compiler are
\* attributes no claim reads; they are not part of the record.
apply_to_metadata(properties, metadata) ==
    LET padded == IF properties.auto_pad_by.some
                  THEN [metadata EXCEPT !.auto_created_pad_by = properties.auto_pad_by]
                  ELSE metadata
    IN  IF properties.detected_type.some
        THEN set_type(padded, properties.detected_type.v, "Autogenerated")
        ELSE padded

\* Nothing has been set yet.
NothingDeclared ==
    [user_type |-> None, auto_type |-> None, user_size |-> None, auto_size |-> None,
     last |-> "new"]

\* *sym.user_declared_name_mut() = Some(name)
SetUserDeclaredName ==
    \E n \in NameArgs :
        /\ meta' = [meta EXCEPT !.user_declared_name = Some(n)]
        /\ declared' = [declared EXCEPT !.last = "user_declared_name_mut"]
        /\ UNCHANGED <<rangeVars, pipeVars, refVars, dataVars, textVars>>

\* sym.set_type(t, GeneratedBy::UserDeclared)
SetUserDeclaredType ==
    \E t \in SymTypes :
        /\ meta' = set_type(meta, t, "UserDeclared")
        /\ declared' = [declared EXCEPT !.user_type = Some(t), !.last = "set_type_user"]
        /\ UNCHANGED <<rangeVars, pipeVars, refVars, dataVars, textVars>>

\* sym.set_type(t, GeneratedBy::Autogenerated)
SetAutodetectedType ==
    \E t \in SymTypes :
        /\ meta' = set_type(meta, t, "Autogenerated")
        /\ declared' = [declared EXCEPT !.auto_type = Some(t), !.last = "set_type_auto"]
        /\ UNCHANGED <<rangeVars, pipeVars, refVars, dataVars, textVars>>

\* *sym.user_declared_size_mut() = Some(size)
SetUserDeclaredSize ==
    \E s \in SymSizes :
        /\ meta' = [meta EXCEPT !.user_declared_size = Some(s)]
        /\ declared' = [declared EXCEPT !.user_size = Some(s),
                                        !.last = "user_declared_size_mut"]
        /\ UNCHANGED <<rangeVars, pipeVars, refVars, dataVars, textVars>>

\* *sym.autodetected_size_mut() = Some(size)
SetAutodetectedSize ==
    \E s \in SymSizes :
        /\ meta' = [meta EXCEPT !.autodetected_size = Some(s)]
        /\ declared' = [declared EXCEPT !.auto_size = Some(s),
                                        !.last = "autodetected_size_mut"]
        /\ UNCHANGED <<rangeVars, pipeVars, refVars, dataVars, textVars>>

\* properties.apply_to_metadata(metadata), as SymbolData::new does when the symbol is
\* materialized.
ApplyToMetadata ==
    \E dt \in {None} \cup {Some(t) : t \in SymTypes}, pad \in {None, Some(SymVram - 4)} :
        /\ meta' = apply_to_metadata([auto_pad_by |-> pad, detected_type |-> dt], meta)
        /\ declared' = [declared EXCEPT
                            !.auto_type = IF dt.some THEN dt ELSE @,
                            !.last = "apply_to_metadata"]
        /\ UNCHANGED <<rangeVars, pipeVars, refVars, dataVars, textVars>>

\* No text section is being built.
NoText == [phase |-> "none"]

(***************************************************************************)
(* Context, SegmentMetadata lookups, and the helpers of the data scan      *)
(***************************************************************************)

\* The most words a data section holds, and the most references the segment knows
\* inside it.
MaxWords == 3
MaxRefs == 2
MaxFloats == 4

\* The global segment of the Context the sections are built in.
DataSegmentRanges == RomVramRange_new([start |-> 0, end |-> 32], [start |-> 8, end |-> 40])

\* Context::new: a global segment without symbols or references.
Context_new ==
    [global_config |-> GlobalConfig_new,
     global_segment |-> [ranges |-> DataSegmentRanges,
                         symbols |-> [k \in {} |-> 0],
                         references |-> [k \in {} |-> 0]]]

\* BTreeMap / UnorderedMap insert(key, value)
MapInsert(map, key, value) ==
    [k \in DOMAIN map \cup {key} |-> IF k = key THEN value ELSE map[k]]

\* map.entry(key).or_default() for a map of Option values
EntryOrDefault(map, key) == IF key \in DOMAIN map THEN map ELSE MapInsert(map, key, None)

\* usize::next_multiple_of
next_multiple_of(n, m) == ((n + m - 1) \div m) * m

\* Endian::word_from_bytes
word_from_bytes(endian, b) ==
    IF endian = "Big"
    THEN b[1] * 16777216 + b[2] * 65536 + b[3] * 256 + b[4]
    ELSE b[4] * 16777216 + b[3] * 65536 + b[2] * 256 + b[1]

\* Endian::dword_from_bytes; the 64 bits are kept as their two 32-bit halves.
dword_from_bytes(endian, b) ==
    IF endian = "Big"
    THEN [hi |-> word_from_bytes(endian, SubSeq(b, 1, 4)),
          lo |-> word_from_bytes(endian, SubSeq(b, 5, 8))]
    ELSE [hi |-> word_from_bytes(endian, SubSeq(b, 5, 8)),
          lo |-> word_from_bytes(endian, SubSeq(b, 1, 4))]

\* SymbolType predicates
can_reference_symbols(t) == t \in {"Word", "Jumptable", "GccExceptTable", "UserCustom"}
is_table(t) == t \in {"Jumptable", "GccExceptTable"}
may_have_addend(t) == t \notin {"Function", "BranchLabel", "JumptableLabel",
                                "GccExceptTableLabel", "Jumptable", "Float32", "Float64"}

\* SymbolType::is_late_rodata(compiler): jumptables and floats, under a compiler that
\* emits late rodata.
is_late_rodata(t, compiler) ==
    compiler = Some("IDO") /\ t \in {"Jumptable", "Float32", "Float64"}

\* Compiler::prev_align_for_type: log2 of the alignment the compiler gives the type.
prev_align_for_type(compiler, t) ==
    IF t \in {"Float64", "DWord"} THEN Some(3)
    ELSE IF t \in {"Jumptable", "Float32", "Word"} THEN Some(2)
    ELSE None

\* SegmentMetadata::is_vram_ignored: no address of the segment is ignored.
is_vram_ignored(seg, vram) == FALSE

\* ReferenceWrapper over the records the segment holds at `vram`: the SymbolMetadata
\* when there is one, completed by the ReferencedAddress.
ReferenceWrapper(seg, vram) ==
    LET has_m == vram \in DOMAIN seg.symbols
        has_r == vram \in DOMAIN seg.references
        m_type == IF has_m THEN SymbolMetadata_sym_type(seg.symbols[vram]) ELSE None
        m_size == IF has_m THEN SymbolMetadata_size(seg.symbols[vram]) ELSE None
    IN  [vram |-> vram,
         sym_type |-> IF m_type.some THEN m_type
                      ELSE IF has_r THEN sym_type(seg.references[vram]) ELSE None,
         size |-> IF m_size.some THEN m_size
                  ELSE IF has_r THEN size(seg.references[vram]) ELSE None,
         user_declared_size |-> IF has_m THEN seg.symbols[vram].user_declared_size
                                ELSE None,
         reference_counter |-> IF has_r THEN reference_counter(seg.references[vram])
                               ELSE seg.symbols[vram].reference_counter]

\* The addresses the segment holds a record for.
ReferenceKeys(seg) == DOMAIN seg.symbols \cup DOMAIN seg.references

\* SegmentMetadata::find_reference(vram, FindSettings::new(allow_addend))
find_reference(seg, vram, allow_addend) ==
    LET below == {k \in ReferenceKeys(seg) : k <= vram}
    IN  IF below = {} THEN None
        ELSE LET k == CHOOSE x \in below : \A y \in below : y <= x
                 w == ReferenceWrapper(seg, k)
             IN  IF k = vram THEN Some(w)
                 ELSE IF allow_addend /\ w.size.some /\ vram < k + w.size.v THEN Some(w)
                 ELSE None

\* SegmentMetadata::find_references_range(range): the addresses, in order.
find_references_range(seg, rng) == {k \in ReferenceKeys(seg) : in_range(rng, k)}

\* SegmentMetadata::find_symbols_range(start, end)
find_symbols_range(seg, start, end) == {k \in DOMAIN seg.symbols : start <= k /\ k < end}

\* SegmentMetadata::add_symbol(vram, allow_sym_with_addend): (the segment afterwards,
\* the key of the record handed back).
add_symbol(seg, vram, allow_sym_with_addend) ==
    LET got == find_mut_or_insert_with(seg.symbols, vram, allow_sym_with_addend,
                                       SymbolMetadata_new("Autogenerated", vram))
    IN  [seg |-> [seg EXCEPT !.symbols = got.map], key |-> got.key]

\* Bytes that may be part of a string: printable ASCII.
is_printable(byte) == 32 <= byte /\ byte <= 126

\* StringGuesserLevel::guess: Ok(size), the terminator included, when `bytes` starts
\* with a non-empty run of printable bytes ended by a NUL, the reference (if any) is
\* untyped or a CString, and the scan is not in late rodata; an error otherwise.
guess(reference, vram, bytes, reached_late_rodata) ==
    LET nuls == {i \in 1 .. Len(bytes) : bytes[i] = 0}
        first == CHOOSE i \in nuls : \A j \in nuls : i <= j
    IN  IF reached_late_rodata THEN [ok |-> FALSE]
        ELSE IF reference.some /\ reference.v.sym_type.some
                /\ reference.v.sym_type.v # "CString" THEN [ok |-> FALSE]
        ELSE IF nuls = {} THEN [ok |-> FALSE]
        ELSE IF first = 1 THEN [ok |-> FALSE]
        ELSE IF \E i \in 1 .. first - 1 : ~is_printable(bytes[i]) THEN [ok |-> FALSE]
        ELSE [ok |-> TRUE, size |-> first]

(***************************************************************************)
(* DataSection::find_symbols                                               *)
(*                                                                         *)
(* `inp` gathers the arguments of the call: seg (the owned segment),       *)
(* compiler (of the settings), raw_bytes, vram_range, section_type, endian.*)
(* `st` gathers the locals of the scan.                                    *)
(***************************************************************************)

IsFloat(t) == t \in {Some("Float32"), Some("Float64")}

\* The locals before the scan: a cut point at the beginning of the section.
find_symbols_begin(vram_range) ==
    [symbols_info |-> MapInsert([k \in {} |-> 0], vram_range.start, None),
     auto_pads |-> [k \in {} |-> 0],
     remaining_string_size |-> 0,
     prev_sym_info |-> None,
     maybe_reached_late_rodata |-> FALSE,
     reached_late_rodata |-> FALSE,
     float_counter |-> 0,
     float_padding_counter |-> 0]

\* The simpler algorithm, for one reference of find_references_range.
fallback_reference(st, inp, reference_vram) ==
    LET reference == ReferenceWrapper(inp.seg, reference_vram)
        st1 == [st EXCEPT !.symbols_info = MapInsert(@, reference_vram, reference.sym_type)]
        next_vram == reference_vram + reference.size.v
    IN  IF reference.size.some /\ in_range(inp.vram_range, next_vram)
        THEN [st1 EXCEPT !.symbols_info = MapInsert(@, next_vram, None),
                         !.auto_pads = MapInsert(@, next_vram, reference_vram)]
        ELSE st1

\* The simpler algorithm: the references of the section's range, in address order.
RECURSIVE fallback_scan(_, _, _)
fallback_scan(st, inp, todo) ==
    IF todo = {} THEN st
    ELSE LET v == CHOOSE x \in todo : \A y \in todo : x <= y
         IN  fallback_scan(fallback_reference(st, inp, v), inp, todo \ {v})

\* The word scan: we are sure to be in late rodata when the previous word made us
\* think so and this word starts a referenced float.
scan_reached(st, a, current_type) ==
    IF st.maybe_reached_late_rodata /\ IsFloat(current_type) /\ a.some
    THEN [st EXCEPT !.reached_late_rodata = TRUE]
    ELSE st

\* A mutant of scan_floats: zero words are not counted as padding.
scan_floats_no_padding(st, inp, a, current_type, word, local_offset, current_vram) ==
    IF a.some
    THEN IF IsFloat(a.v.sym_type)
         THEN [st EXCEPT !.float_counter = 1, !.float_padding_counter = 0]
         ELSE [st EXCEPT !.float_counter = 0, !.float_padding_counter = 0]
    ELSE IF IsFloat(current_type)
    THEN [st EXCEPT !.float_counter = @ + 1]
    ELSE [st EXCEPT !.float_counter = 0, !.float_padding_counter = 0]

\* The word scan: the float counters.
scan_floats(st, inp, a, current_type, word, local_offset, current_vram) ==
    IF a.some
    THEN IF IsFloat(a.v.sym_type)
         THEN [st EXCEPT !.float_counter = 1, !.float_padding_counter = 0]
         ELSE [st EXCEPT !.float_counter = 0, !.float_padding_counter = 0]
    ELSE IF current_type = Some("Float32")
    THEN [st EXCEPT !.float_counter = @ + 1,
                    !.float_padding_counter = IF word = 0 THEN @ + 1 ELSE @]
    ELSE IF current_type = Some("Float64")
    THEN IF current_vram % 8 = 0
         THEN IF local_offset + 8 <= Len(inp.raw_bytes)
              THEN [st EXCEPT
                      !.float_counter = @ + 1,
                      !.float_padding_counter =
                          IF dword_from_bytes(inp.endian,
                                 SubSeq(inp.raw_bytes, local_offset + 1, local_offset + 8))
                                 = [hi |-> 0, lo |-> 0]
                          THEN @ + 1 ELSE @]
              ELSE [st EXCEPT !.float_counter = 0, !.float_padding_counter = 0]
         ELSE st
    ELSE [st EXCEPT !.float_counter = 0, !.float_padding_counter = 0]

\* The word scan: a word that is the address of something in this section.
scan_pointer(st, inp, current_type, word_vram) ==
    LET should_search_for_address == ~current_type.some \/ can_reference_symbols(current_type.v)
        word_ref == find_reference(inp.seg, word_vram, TRUE)
    IN  IF /\ should_search_for_address
           /\ ~is_vram_ignored(inp.seg, word_vram)
           /\ in_range(inp.vram_range, word_vram)
           /\ \/ ~word_ref.some
              \/ word_ref.v.vram = word_vram
              \/ (current_type.some /\ is_table(current_type.v))
        THEN [st EXCEPT !.symbols_info = EntryOrDefault(@, word_vram)]
        ELSE st

\* A mutant of string_next_vram: a zero word after the string that no one references
\* is absorbed, whatever the compiler and whatever follows it.
string_next_vram_always(inp, current_vram, local_offset, str_sym_size) ==
    LET next_vram == current_vram + str_sym_size
        next_ref == find_reference(inp.seg, next_vram, FALSE)
    IN  IF /\ next_vram % 8 = 4
           /\ local_offset + str_sym_size + 4 <= Len(inp.raw_bytes)
           /\ word_from_bytes(inp.endian,
                  SubSeq(inp.raw_bytes, local_offset + str_sym_size + 1,
                         local_offset + str_sym_size + 4)) = 0
           /\ (~next_ref.some \/ next_ref.v.reference_counter = 0)
        THEN next_vram + 4
        ELSE next_vram

\* The word scan: where the symbol after a string starts. Some compilers align strings
\* to 8; the padding word is taken into the string when the next symbol is known to
\* be aligned, or when the padding is at the end of the section.
string_next_vram(inp, current_vram, local_offset, str_sym_size) ==
    LET next_vram == current_vram + str_sym_size
        next_ref == find_reference(inp.seg, next_vram, FALSE)
        next_next_vram == next_multiple_of(next_vram, 8)
        next_next_ref == find_reference(inp.seg, next_next_vram, FALSE)
        align == IF next_next_ref.some /\ next_next_ref.v.sym_type.some /\ inp.compiler.some
                 THEN prev_align_for_type(inp.compiler.v, next_next_ref.v.sym_type.v)
                 ELSE None
    IN  IF /\ next_vram % 8 = 4
           /\ local_offset + str_sym_size + 4 <= Len(inp.raw_bytes)
           /\ word_from_bytes(inp.endian,
                  SubSeq(inp.raw_bytes, local_offset + str_sym_size + 1,
                         local_offset + str_sym_size + 4)) = 0
           /\ (~next_ref.some \/ next_ref.v.reference_counter = 0)
        THEN IF in_range(inp.vram_range, next_next_vram)
             THEN IF align.some /\ align.v >= 3 THEN next_vram + 4 ELSE next_vram
             ELSE IF inp.vram_range.end = next_next_vram THEN next_vram + 4
             ELSE next_vram
        ELSE next_vram

\* The word scan: a string that starts at this word.
scan_string(st, inp, word_vram, local_offset, current_vram) ==
    LET word_ref == find_reference(inp.seg, word_vram, TRUE)
        word_ok ==
            \/ ~word_ref.some
            \/ /\ word_ref.v.sym_type.some
               /\ (word_ref.v.sym_type.v = "Function" \/ is_label(word_ref.v.sym_type.v))
               /\ word_ref.v.vram # word_vram
        current_ref == find_reference(inp.seg, current_vram, TRUE)
        guessed_size == guess(current_ref, current_vram,
                              SubSeq(inp.raw_bytes, local_offset + 1, Len(inp.raw_bytes)),
                              st.maybe_reached_late_rodata \/ st.reached_late_rodata)
        str_sym_size == next_multiple_of(guessed_size.size, 4)
        in_between_range ==
            find_references_range(inp.seg, [start |-> current_vram + 1,
                                            end |-> current_vram + str_sym_size])
        next_vram == string_next_vram(inp, current_vram, local_offset, str_sym_size)
        pads1 == IF current_vram \in DOMAIN st.auto_pads THEN st.auto_pads
                 ELSE MapInsert(st.auto_pads, current_vram, current_vram)
        with_next == in_range(inp.vram_range, next_vram) /\ ~is_vram_ignored(inp.seg, next_vram)
    IN  IF /\ ~is_vram_ignored(inp.seg, current_vram)
           /\ word_ok
           /\ (~current_ref.some \/ current_ref.v.vram = current_vram)
           /\ guessed_size.ok
           /\ in_between_range = {}
        THEN [st EXCEPT
                !.remaining_string_size = guessed_size.size,
                !.symbols_info =
                    IF with_next
                    THEN EntryOrDefault(MapInsert(@, current_vram, Some("CString")), next_vram)
                    ELSE MapInsert(@, current_vram, Some("CString")),
                !.auto_pads = IF with_next THEN MapInsert(pads1, next_vram, current_vram)
                              ELSE pads1,
                !.prev_sym_info = None]
        ELSE st

\* The word scan: one of the four addresses of the word, and the reference found there.
scan_reference(st, inp, x_vram, x) ==
    IF is_vram_ignored(inp.seg, x_vram) \/ ~x.some THEN st
    ELSE
        LET reference == x.v
            next_vram == reference.vram + reference.user_declared_size.v
            allow_next == IF reference.sym_type = Some("CString")
                          THEN next_vram % 4 = 0 ELSE TRUE
            st1 == [st EXCEPT !.symbols_info = EntryOrDefault(@, reference.vram)]
            st2 == IF /\ reference.user_declared_size.some
                      /\ in_range(inp.vram_range, next_vram)
                      /\ allow_next
                   THEN [st1 EXCEPT !.symbols_info = EntryOrDefault(@, next_vram),
                                    !.auto_pads = MapInsert(@, next_vram, reference.vram)]
                   ELSE st1
        IN  [st2 EXCEPT !.prev_sym_info = Some([vram |-> x_vram, typ |-> reference.sym_type])]

\* A mutant of late_rodata_update: a tentative detection is kept until refuted.
late_rodata_update_sticky(st, inp) ==
    LET prev_type == IF st.prev_sym_info.some THEN st.prev_sym_info.v.typ ELSE None
    IN  IF /\ ~st.reached_late_rodata
           /\ inp.section_type = "Rodata"
           /\ prev_type.some
           /\ is_late_rodata(prev_type.v, inp.compiler)
        THEN IF prev_type = Some("Jumptable")
             THEN [st EXCEPT !.reached_late_rodata = TRUE]
             ELSE IF st.float_padding_counter + 1 = st.float_counter
             THEN [st EXCEPT !.maybe_reached_late_rodata = TRUE]
             ELSE st
        ELSE st

\* The word scan: the late rodata detector, after each word.
late_rodata_update(st, inp) ==
    LET prev_type == IF st.prev_sym_info.some THEN st.prev_sym_info.v.typ ELSE None
        st0 == [st EXCEPT !.maybe_reached_late_rodata = FALSE]
    IN  IF /\ ~st0.reached_late_rodata
           /\ inp.section_type = "Rodata"
           /\ prev_type.some
           /\ is_late_rodata(prev_type.v, inp.compiler)
        THEN IF prev_type = Some("Jumptable")
             THEN [st0 EXCEPT !.reached_late_rodata = TRUE]
             ELSE IF st0.float_padding_counter + 1 = st0.float_counter
             THEN [st0 EXCEPT !.maybe_reached_late_rodata = TRUE]
             ELSE st0
        ELSE st0

\* The word scan: the type the word is read as.
scan_current_type(st, a) ==
    IF a.some THEN a.v.sym_type
    ELSE IF st.prev_sym_info.some THEN st.prev_sym_info.v.typ
    ELSE None

\* The word scan: a word with no reference at its last three bytes.
scan_word_alone(st, inp, local_offset, current_vram, a, word, current_type) ==
    scan_string(
        scan_pointer(
            scan_floats(scan_reached(st, a, current_type), inp, a, current_type, word,
                        local_offset, current_vram),
            inp, current_type, word),
        inp, word, local_offset, current_vram)

\* The word scan: the references at the four addresses of the word.
scan_references(st, inp, current_vram, a, b, c, d) ==
    scan_reference(
        scan_reference(
            scan_reference(scan_reference(st, inp, current_vram, a), inp, current_vram + 1, b),
            inp, current_vram + 2, c),
        inp, current_vram + 3, d)

\* The word scan: a word that is not inside a string found before.
scan_word_outside_string(st, inp, local_offset, current_vram, a, b, c, d) ==
    scan_references(
        IF ~b.some /\ ~c.some /\ ~d.some
        THEN scan_word_alone(st, inp, local_offset, current_vram, a,
                 word_from_bytes(inp.endian,
                                 SubSeq(inp.raw_bytes, local_offset + 1, local_offset + 4)),
                 scan_current_type(st, a))
        ELSE st,
        inp, current_vram, a, b, c, d)

\* The word scan: the word at `local_offset`, up to the late rodata detector.
scan_word_at(st, inp, local_offset, current_vram) ==
    IF st.remaining_string_size <= 0
    THEN scan_word_outside_string(st, inp, local_offset, current_vram,
             find_reference(inp.seg, current_vram, FALSE),
             find_reference(inp.seg, current_vram + 1, FALSE),
             find_reference(inp.seg, current_vram + 2, FALSE),
             find_reference(inp.seg, current_vram + 3, FALSE))
    ELSE st

\* The word scan: the size left of the string the scan is in.
scan_word_end(st) == [st EXCEPT !.remaining_string_size = @ - 4]

\* The word scan: the body of the loop for word `i` (from 0) of raw_bytes.
scan_word(st, inp, i) ==
    scan_word_end(
        late_rodata_update(scan_word_at(st, inp, i * 4, inp.vram_range.start + i * 4), inp))

\* DataSection::find_symbols needs the word scan when the section is word-aligned and
\* is not an except table.
\* Mutation of uses_word_scan: the section type is not looked at.
uses_word_scan_any_type(vram_range, section_type) == vram_range.start % 4 = 0

uses_word_scan(vram_range, section_type) ==
    vram_range.start % 4 = 0 /\ section_type # "GccExceptTable"

\* The cut points find_symbols returns, in address order, with their types.
symbols_info_vec(st) ==
    LET keys == DOMAIN st.symbols_info
        Rank(k) == Cardinality({x \in keys : x <= k})
    IN  [n \in 1 .. Cardinality(keys) |->
            LET k == CHOOSE x \in keys : Rank(x) = n
            IN  [vram |-> k, typ |-> st.symbols_info[k]]]

(***************************************************************************)
(* Materialization: SymbolData::new, SymbolNoload::new, DataSection::new,  *)
(* SectionNoload::new                                                      *)
(***************************************************************************)

\* Mutation of symbol_word: a word inside a symbol is a reference whatever the type of
\* the symbol.
symbol_word_any_addend(acc, raw_bytes, rom, endian, is_jtbl, i) ==
    LET word_vram == word_from_bytes(endian, SubSeq(raw_bytes, 4 * i + 1, 4 * i + 4))
        found == AddendedOrderedMap_find(acc.seg.symbols, word_vram, TRUE)
    IN  [seg |-> acc.seg,
         relocs |-> Append(acc.relocs,
                       IF in_vram_range(acc.seg.ranges, word_vram) /\ found.some
                       THEN Some([reloc_type |-> "R_MIPS_32", address |-> word_vram])
                       ELSE None)]

\* Mutation of symbol_word: a word of a jumptable is a reference only when a symbol
\* already contains its value.
symbol_word_known_targets(acc, raw_bytes, rom, endian, is_jtbl, i) ==
    LET word_vram == word_from_bytes(endian, SubSeq(raw_bytes, 4 * i + 1, 4 * i + 4))
        found == AddendedOrderedMap_find(acc.seg.symbols, word_vram, TRUE)
    IN  [seg |-> acc.seg,
         relocs |-> Append(acc.relocs,
                       IF in_vram_range(acc.seg.ranges, word_vram) /\ found.some
                          /\ found.v = word_vram
                       THEN Some([reloc_type |-> "R_MIPS_32", address |-> word_vram])
                       ELSE None)]

\* SymbolData::new, the word loop: the relocation of word `i` and, for a jumptable,
\* the label its word points to. `acc` is (seg, relocs).
symbol_word(acc, raw_bytes, rom, endian, is_jtbl, i) ==
    LET word_vram == word_from_bytes(endian, SubSeq(raw_bytes, 4 * i + 1, 4 * i + 4))
        got == add_symbol(acc.seg, word_vram, FALSE)
        label == [set_type(got.seg.symbols[got.key], "JumptableLabel", "Autogenerated")
                    EXCEPT !.reference_counter = @ + 1]
        found == AddendedOrderedMap_find(acc.seg.symbols, word_vram, TRUE)
        typ == SymbolMetadata_sym_type(acc.seg.symbols[found.v])
        valid_reference ==
            IF is_jtbl THEN TRUE
            ELSE IF found.some
            THEN IF found.v = word_vram THEN TRUE
                 ELSE IF typ.some THEN may_have_addend(typ.v) ELSE TRUE
            ELSE FALSE
        reloc == IF valid_reference
                 THEN Some([reloc_type |-> "R_MIPS_32", address |-> word_vram])
                 ELSE None
    IN  IF in_vram_range(acc.seg.ranges, word_vram)
        THEN [seg |-> IF is_jtbl THEN [got.seg EXCEPT !.symbols[got.key] = label]
                      ELSE acc.seg,
              relocs |-> Append(acc.relocs, reloc)]
        ELSE [seg |-> acc.seg, relocs |-> Append(acc.relocs, None)]

RECURSIVE symbol_words(_, _, _, _, _, _)
symbol_words(acc, raw_bytes, rom, endian, is_jtbl, i) ==
    IF 4 * i + 4 > Len(raw_bytes) THEN acc
    ELSE symbol_words(symbol_word(acc, raw_bytes, rom, endian, is_jtbl, i),
                      raw_bytes, rom, endian, is_jtbl, i + 1)

\* SymbolData::new, the word loop of a jumptable: the history of the calls of
\* add_reference_symbol from word `i` on, each with the label and the rom it was given.
RECURSIVE reference_sites(_, _, _, _, _)
reference_sites(ranges, raw_bytes, rom, endian, i) ==
    IF 4 * i + 4 > Len(raw_bytes) THEN <<>>
    ELSE (IF in_vram_range(ranges,
                           word_from_bytes(endian, SubSeq(raw_bytes, 4 * i + 1, 4 * i + 4)))
          THEN <<[label |-> word_from_bytes(endian,
                                             SubSeq(raw_bytes, 4 * i + 1, 4 * i + 4)),
                  rom |-> rom + i]>>
          ELSE <<>>)
         \o reference_sites(ranges, raw_bytes, rom, endian, i + 1)

\* SymbolData::new: (the segment afterwards, the symbol).
SymbolData_new(seg, raw_bytes, rom, vram, section_type, properties, endian) ==
    LET siz == Len(raw_bytes)
        ranges == RomVramRange_new([start |-> rom, end |-> rom + siz],
                                   [start |-> vram, end |-> vram + siz])
        got == add_symbol(seg, vram, FALSE)
        m1 == [got.seg.symbols[got.key] EXCEPT
                  !.rom = Some(rom), !.section_type = Some(section_type),
                  !.autodetected_size = Some(siz), !.is_defined = TRUE]
        m2 == apply_to_metadata(properties, m1)
        seg1 == [got.seg EXCEPT !.symbols[got.key] = m2]
        typ == SymbolMetadata_sym_type(m2)
        no_relocs == [i \in 1 .. (siz \div 4) |-> None]
        scanned == IF rom % 4 = 0 /\ (~typ.some \/ can_reference_symbols(typ.v))
                   THEN symbol_words([seg |-> seg1, relocs |-> <<>>], raw_bytes, rom, endian,
                                     typ = Some("Jumptable"), 0)
                   ELSE [seg |-> seg1, relocs |-> no_relocs]
    IN  [seg |-> scanned.seg,
         sym |-> [ranges |-> ranges, raw_bytes |-> raw_bytes, section_type |-> section_type,
                  relocs |-> scanned.relocs,
                  sites |-> IF rom % 4 = 0 /\ typ = Some("Jumptable")
                               /\ can_reference_symbols("Jumptable")
                            THEN reference_sites(seg.ranges, raw_bytes, rom, endian, 0)
                            ELSE <<>>]]

\* SymbolNoload::new: (the segment afterwards, the symbol).
SymbolNoload_new(seg, vram_range, properties) ==
    LET got == add_symbol(seg, vram_range.start, FALSE)
        m1 == [got.seg.symbols[got.key] EXCEPT
                  !.section_type = Some("Bss"),
                  !.autodetected_size = Some(RangeSize(vram_range)), !.is_defined = TRUE]
        m2 == IF properties.auto_pad_by.some
              THEN [m1 EXCEPT !.auto_created_pad_by = properties.auto_pad_by]
              ELSE m1
    IN  [seg |-> [got.seg EXCEPT !.symbols[got.key] = m2],
         sym |-> [vram_range |-> vram_range]]

\* A mutant of DataSection_new_begin: the symbol at the beginning of the section is
\* added before the input is validated.
DataSection_new_begin_eager(context, raw_bytes, rom, vram) ==
    LET added == [context EXCEPT !.global_segment = add_symbol(@, vram, FALSE).seg]
    IN  IF Len(raw_bytes) = 0
        THEN [context |-> added, result |-> [kind |-> "EmptySection", vram |-> vram]]
        ELSE IF rom % 4 # vram % 4
        THEN [context |-> added,
              result |-> [kind |-> "RomVramAlignmentMismatch", rom |-> rom, vram |-> vram,
                          multiple_of |-> 4]]
        ELSE [context |-> added, result |-> [kind |-> "Ok"]]

\* DataSection::new up to the call of find_symbols: the validation of the input, then
\* the symbol at the beginning of the section. (the context afterwards, the result)
DataSection_new_begin(context, raw_bytes, rom, vram) ==
    IF Len(raw_bytes) = 0
    THEN [context |-> context, result |-> [kind |-> "EmptySection", vram |-> vram]]
    ELSE IF rom % 4 # vram % 4
    THEN [context |-> context,
          result |-> [kind |-> "RomVramAlignmentMismatch", rom |-> rom, vram |-> vram,
                      multiple_of |-> 4]]
    ELSE [context |-> [context EXCEPT !.global_segment = add_symbol(@, vram, FALSE).seg],
          result |-> [kind |-> "Ok"]]

\* A mutant of data_symbol: every symbol extends to the end of the section.
data_symbol_to_end(acc, cuts, auto_pads, raw_bytes, rom, vram, section_type, endian, n) ==
    LET new_sym_vram == cuts[n].vram
        start == new_sym_vram - vram
        properties == [auto_pad_by |-> IF new_sym_vram \in DOMAIN auto_pads
                                       THEN Some(auto_pads[new_sym_vram]) ELSE None,
                       detected_type |-> cuts[n].typ]
        made == SymbolData_new(acc.seg, SubSeq(raw_bytes, start + 1, Len(raw_bytes)),
                               rom + start, new_sym_vram, section_type, properties, endian)
    IN  [seg |-> made.seg, data_symbols |-> Append(acc.data_symbols, made.sym)]

\* DataSection::new after find_symbols: symbol `n` of the cut points `cuts`, added to
\* `acc`, which is (seg, data_symbols).
data_symbol(acc, cuts, auto_pads, raw_bytes, rom, vram, section_type, endian, n) ==
    LET new_sym_vram == cuts[n].vram
        start == new_sym_vram - vram
        end == IF n + 1 <= Len(cuts) THEN cuts[n + 1].vram - vram ELSE Len(raw_bytes)
        properties == [auto_pad_by |-> IF new_sym_vram \in DOMAIN auto_pads
                                       THEN Some(auto_pads[new_sym_vram]) ELSE None,
                       detected_type |-> cuts[n].typ]
        made == SymbolData_new(acc.seg, SubSeq(raw_bytes, start + 1, end), rom + start,
                               new_sym_vram, section_type, properties, endian)
    IN  [seg |-> made.seg, data_symbols |-> Append(acc.data_symbols, made.sym)]

RECURSIVE data_symbols_from(_, _, _, _, _, _, _, _, _)
data_symbols_from(acc, cuts, auto_pads, raw_bytes, rom, vram, section_type, endian, n) ==
    IF n > Len(cuts) THEN acc
    ELSE data_symbols_from(
             data_symbol(acc, cuts, auto_pads, raw_bytes, rom, vram, section_type, endian, n),
             cuts, auto_pads, raw_bytes, rom, vram, section_type, endian, n + 1)

\* SectionNoload::new, the first loop: the cut points and the pads of the symbols of
\* the range. `acc` is (symbols_info, auto_pads).
noload_symbol_info(acc, seg, vram_range, sym_vram) ==
    LET sym == seg.symbols[sym_vram]
        next_vram == sym.vram + sym.user_declared_size.v
        acc1 == [acc EXCEPT !.symbols_info = @ \cup {sym_vram}]
    IN  IF sym.user_declared_size.some /\ next_vram # vram_range.end
        THEN [symbols_info |-> acc1.symbols_info \cup {next_vram},
              auto_pads |-> MapInsert(acc1.auto_pads, next_vram, sym.vram)]
        ELSE acc1

RECURSIVE noload_symbols_info(_, _, _, _)
noload_symbols_info(acc, seg, vram_range, todo) ==
    IF todo = {} THEN acc
    ELSE LET v == CHOOSE x \in todo : \A y \in todo : x <= y
         IN  noload_symbols_info(noload_symbol_info(acc, seg, vram_range, v), seg,
                                 vram_range, todo \ {v})

\* SectionNoload::new, the second loop. `acc` is (seg, noload_symbols).
RECURSIVE noload_symbols_from(_, _, _, _)
noload_symbols_from(acc, info, vram_range, todo) ==
    IF todo = {} THEN acc
    ELSE LET v == CHOOSE x \in todo : \A y \in todo : x <= y
             later == {x \in info.symbols_info : x > v}
             new_sym_vram_end == IF later # {}
                                 THEN CHOOSE x \in later : \A y \in later : x <= y
                                 ELSE vram_range.end
             properties == [auto_pad_by |-> IF v \in DOMAIN info.auto_pads
                                            THEN Some(info.auto_pads[v]) ELSE None]
             made == SymbolNoload_new(acc.seg, [start |-> v, end |-> new_sym_vram_end],
                                      properties)
         IN  noload_symbols_from([seg |-> made.seg,
                                  noload_symbols |-> Append(acc.noload_symbols, made.sym)],
                                 info, vram_range, todo \ {v})

\* SectionNoload::new: (the segment afterwards, the symbols of the section). A cut
\* point past the end of the section fails the assertion of the second loop, and the
\* call does not return.
SectionNoload_new(seg, vram_range) ==
    LET info == noload_symbols_info(
                    [symbols_info |-> {vram_range.start}, auto_pads |-> [k \in {} |-> 0]],
                    seg, vram_range,
                    find_symbols_range(seg, vram_range.start, vram_range.end))
    IN  IF \E v \in info.symbols_info : v >= vram_range.end
        THEN [seg |-> seg, noload_symbols |-> <<>>, panicked |-> TRUE]
        ELSE [panicked |-> FALSE] @@
             noload_symbols_from([seg |-> seg, noload_symbols |-> <<>>], info, vram_range,
                                 info.symbols_info)

(***************************************************************************)
(* Building the context and the sections                                   *)
(***************************************************************************)

\* No section is being built.
NoSection == [phase |-> "none"]

\* Where the sections start, and the offsets the segment may know a record at.
SectionVram == DataSegmentRanges.vram.start
SectionRom == 4
RefOffsets == {0, 1} \cup {4 * w + o : w \in 1 .. MaxWords - 2, o \in {0, 1}}
                     \cup {4 * (MaxWords - 1)}

\* What the segment may know at an address: a reference the preheater gathered
\* (untyped, float, double or jumptable), or a symbol the user declared with a size.
RefKinds ==
    {[user |-> FALSE, typ |-> None, size |-> None],
     [user |-> FALSE, typ |-> Some("Float32"), size |-> Some(4)],
     [user |-> FALSE, typ |-> Some("Float64"), size |-> Some(8)],
     [user |-> FALSE, typ |-> Some("Jumptable"), size |-> None],
     [user |-> TRUE, typ |-> None, size |-> Some(4)],
     [user |-> TRUE, typ |-> None, size |-> Some(1)],
     [user |-> TRUE, typ |-> Some("CString"), size |-> Some(2)]}

\* The kinds a record after another one may be of.
LaterRefKinds == {k \in RefKinds : ~k.user /\ k.typ \in {None, Some("Float32")}}

\* The records of the segment: at most MaxRefs, at distinct addresses; when there are
\* several, the first one is at the start of the section.
RefChoices ==
    {f \in UNION {[offs -> RefKinds] : offs \in {x \in SUBSET RefOffsets : Cardinality(x) <= MaxRefs}} :
        \A o \in DOMAIN f : (\E p \in DOMAIN f : p < o) =>
            f[o] \in LaterRefKinds /\ 0 \in DOMAIN f}

\* The ReferencedAddress the preheater holds after one reference of kind `k`.
ReferencedAddress_of(vram, k) ==
    LET r0 == increment_references(set_size(ReferencedAddress_new(vram), k.size))
    IN  IF k.typ.some THEN set_sym_type(r0, k.typ.v) ELSE r0

\* The SymbolMetadata after add_user_symbol and user_declared_size_mut.
SymbolMetadata_of(vram, k) ==
    [SymbolMetadata_new("UserDeclared", vram) EXCEPT
        !.user_declared_name = Some("sym"),
        !.user_declared_size = k.size,
        !.user_declared_type = k.typ]

\* The words a section is made of: zero, the address of the second word of the
\* section, the string "abc", four letters without terminator, and the float 1.0.
WordValues ==
    {<<0, 0, 0, 0>>, <<0, 0, 0, SectionVram + 4>>, <<97, 98, 99, 0>>, <<97, 98, 99, 100>>,
     <<63, 128, 0, 0>>}

RECURSIVE Flatten(_)
Flatten(ws) == IF ws = <<>> THEN <<>> ELSE Head(ws) \o Flatten(Tail(ws))

Zeros(n) == [i \in 1 .. n |-> 0]

\* `k` times the float 1.0, then `j` zero words.
FloatRun(k, j) == Flatten([i \in 1 .. k |-> <<63, 128, 0, 0>>]) \o Zeros(4 * j)

\* The words after the second one of a section.
LaterWordValues == {<<0, 0, 0, 0>>, <<63, 128, 0, 0>>}

\* The contents of a word-aligned section: whole words, one word and two bytes, runs of
\* floats, or a third word that points to the second one.
AlignedBytes ==
    {Flatten(ws) : ws \in {w \in UNION {[1 .. n -> WordValues] : n \in 1 .. MaxWords} :
                              \A i \in DOMAIN w : i > 2 => w[i] \in LaterWordValues}}
    \cup {w \o <<0, 0>> : w \in WordValues}
    \cup {FloatRun(k, j) : k \in 1 .. MaxFloats, j \in 0 .. 1}
    \cup {Zeros(8) \o <<0, 0, 0, SectionVram + 4>>}

\* The section types and compilers a section is built under.
SectionSettings ==
    {[section_type |-> "Data", compiler |-> Some("IDO")],
     [section_type |-> "Rodata", compiler |-> Some("IDO")],
     [section_type |-> "Rodata", compiler |-> None]}

\* The contents of the exception table sections: zeros, a word that looks like a pointer
\* into the section, first or last, and a word that looks like a string.
TableBytes ==
    {Zeros(8), <<0, 0, 0, SectionVram + 4>> \o Zeros(4), <<97, 98, 99, 0>> \o Zeros(4),
     Zeros(8) \o <<0, 0, 0, SectionVram + 4>>}

\* The arguments of DataSection::new.
DataSectionArgs ==
    {[raw_bytes |-> b, rom |-> SectionRom, vram |-> SectionVram,
      section_type |-> t.section_type, compiler |-> t.compiler] :
        b \in AlignedBytes, t \in SectionSettings}
    \cup {[raw_bytes |-> Zeros(n), rom |-> SectionRom + 1, vram |-> SectionVram + 1,
           section_type |-> "Data", compiler |-> None] : n \in {3, 6}}
    \cup {[raw_bytes |-> b, rom |-> SectionRom, vram |-> SectionVram,
           section_type |-> "GccExceptTable", compiler |-> None] : b \in TableBytes}
    \cup {[raw_bytes |-> Zeros(n), rom |-> SectionRom + 1, vram |-> SectionVram,
           section_type |-> "Data", compiler |-> None] : n \in {0, 4}}
    \cup {[raw_bytes |-> Zeros(0), rom |-> SectionRom, vram |-> SectionVram,
           section_type |-> "Rodata", compiler |-> None]}

\* The ranges of SectionNoload::new.
NoloadRanges == {[start |-> SectionVram, end |-> SectionVram + 4 * n] : n \in 2 .. MaxWords}

\* The arguments of find_symbols, for the section being built.
ScanInput(s, context) ==
    [seg |-> context.global_segment, compiler |-> s.args.compiler,
     raw_bytes |-> s.args.raw_bytes,
     vram_range |-> [start |-> s.args.vram, end |-> s.args.vram + Len(s.args.raw_bytes)],
     section_type |-> s.args.section_type, endian |-> context.global_config.endian]

\* The context as the builder pipeline left it: the user's symbols and the references
\* the preheater gathered.
BuildContext ==
    /\ sec.phase = "none"
    /\ \E f \in RefChoices :
        ctx' = [ctx EXCEPT
                  !.global_segment.symbols =
                      [v \in {SectionVram + o : o \in {x \in DOMAIN f : f[x].user}} |->
                          SymbolMetadata_of(v, f[v - SectionVram])],
                  !.global_segment.references =
                      [v \in {SectionVram + o : o \in {x \in DOMAIN f : ~f[x].user}} |->
                          ReferencedAddress_of(v, f[v - SectionVram])]]
    /\ sec' = [phase |-> "ready"]
    /\ UNCHANGED <<rangeVars, pipeVars, refVars, symVars, textVars>>

\* DataSection::new, up to the first word of the scan of find_symbols.
DataSectionNew ==
    /\ sec.phase = "ready"
    /\ \E args \in DataSectionArgs :
        LET begun == DataSection_new_begin(ctx, args.raw_bytes, args.rom, args.vram)
            s0 == [phase |-> "begun", kind |-> "data", args |-> args, before |-> ctx,
                   result |-> begun.result, i |-> 0,
                   scan |-> find_symbols_begin([start |-> args.vram,
                                                end |-> args.vram + Len(args.raw_bytes)]),
                   trace |-> <<>>, data_symbols |-> <<>>]
            inp == ScanInput(s0, begun.context)
        IN  /\ ctx' = begun.context
            /\ sec' = IF begun.result.kind # "Ok" THEN [s0 EXCEPT !.phase = "error"]
                      ELSE IF ~uses_word_scan(inp.vram_range, args.section_type)
                      THEN [s0 EXCEPT
                              !.phase = "found",
                              !.scan = fallback_scan(@, inp,
                                           find_references_range(inp.seg, inp.vram_range))]
                      ELSE IF Len(args.raw_bytes) < 4 THEN [s0 EXCEPT !.phase = "found"]
                      ELSE [s0 EXCEPT !.phase = "scanning"]
    /\ UNCHANGED <<rangeVars, pipeVars, refVars, symVars, textVars>>

\* find_symbols: one word of the scan.
ScanWord ==
    /\ sec.phase = "scanning"
    /\ LET scanned == scan_word(sec.scan, ScanInput(sec, ctx), sec.i)
       IN  sec' = [sec EXCEPT
                     !.scan = scanned,
                     !.i = @ + 1,
                     !.trace = Append(@, [maybe |-> scanned.maybe_reached_late_rodata,
                                          reached |-> scanned.reached_late_rodata]),
                     !.phase = IF 4 * (sec.i + 1) + 4 <= Len(sec.args.raw_bytes)
                               THEN "scanning" ELSE "found"]
    /\ UNCHANGED <<ctx, rangeVars, pipeVars, refVars, symVars, textVars>>

\* DataSection::new, after find_symbols: the symbols between the cut points.
Materialize ==
    /\ sec.phase = "found"
    /\ LET made == data_symbols_from(
                       [seg |-> ctx.global_segment, data_symbols |-> <<>>],
                       symbols_info_vec(sec.scan), sec.scan.auto_pads, sec.args.raw_bytes,
                       sec.args.rom, sec.args.vram, sec.args.section_type,
                       ctx.global_config.endian, 1)
       IN  /\ ctx' = [ctx EXCEPT !.global_segment = made.seg]
           /\ sec' = [sec EXCEPT !.phase = "built", !.data_symbols = made.data_symbols]
    /\ UNCHANGED <<rangeVars, pipeVars, refVars, symVars, textVars>>

\* SectionNoload::new
SectionNoloadNew ==
    /\ sec.phase = "ready"
    /\ \E vram_range \in NoloadRanges :
        LET made == SectionNoload_new(ctx.global_segment, vram_range)
        IN  /\ ctx' = [ctx EXCEPT !.global_segment = made.seg]
            /\ sec' = [phase |-> IF made.panicked THEN "panicked" ELSE "built",
                       kind |-> "noload", vram_range |-> vram_range,
                       before |-> ctx, noload_symbols |-> made.noload_symbols]
    /\ UNCHANGED <<rangeVars, pipeVars, refVars, symVars, textVars>>

(***************************************************************************)
(* Text sections: SymbolFunction::new                                      *)
(***************************************************************************)

\* The functions of a text section: at most MaxFunctions, of FunctionSize bytes each,
\* one after the other from the start of the segment.
MaxFunctions == 3
FunctionSize == 8

function_vram(n) == SectionVram + FunctionSize * (n - 1)

\* An address of the segment that no function of the section starts at, and an
\* address outside the segment.
InsideSegmentVram == SectionVram + FunctionSize * MaxFunctions + 4
OutsideSegmentVram == DataSegmentRanges.vram.end + 8

\* What InstructionAnalyzer::analyze found in function `n`: branches to its own second
\* instruction, calls, and addresses built by hi/lo pairs.
AnalysisResults(n) ==
    [branch_targets : {{}, {function_vram(n) + 4}},
     func_calls : {{}, {function_vram(1)}, {function_vram(MaxFunctions)},
                   {InsideSegmentVram}, {OutsideSegmentVram}},
     address_per_lo_instr : {{}, {InsideSegmentVram}, {OutsideSegmentVram}}]

\* SegmentMetadata::add_function: the record at `vram`, created if needed, typed Function.
add_function(seg, vram, rom) ==
    LET got == add_symbol(seg, vram, FALSE)
        m == set_type(got.seg.symbols[got.key], "Function", "Autogenerated")
    IN  [seg |-> [got.seg EXCEPT !.symbols[got.key] =
                     IF rom.some THEN [m EXCEPT !.rom = rom] ELSE m],
         key |-> got.key]

\* SegmentMetadata::add_branch_label: the record at `vram`, created if needed, typed
\* BranchLabel.
add_branch_label(seg, vram, rom) ==
    LET got == add_symbol(seg, vram, FALSE)
        m == set_type(got.seg.symbols[got.key], "BranchLabel", "Autogenerated")
    IN  [seg |-> [got.seg EXCEPT !.symbols[got.key] =
                     IF rom.some THEN [m EXCEPT !.rom = rom] ELSE m],
         key |-> got.key]

\* Context::find_referenced_segment_mut, without overlays: the global segment when
\* `vram` is in its range.
find_referenced_segment(context, vram) ==
    IF in_vram_range(context.global_segment.ranges, vram)
    THEN Some(context.global_segment) ELSE None

\* SymbolFunction::process_instr_analysis_result_owned: a label for every branch target.
RECURSIVE process_instr_analysis_result_owned(_, _, _)
process_instr_analysis_result_owned(seg, ranges, targets) ==
    IF targets = {} THEN seg
    ELSE LET target_vram == CHOOSE x \in targets : \A y \in targets : x <= y
             target_rom == rom_from_vram(ranges, target_vram)
         IN  process_instr_analysis_result_owned(
                 add_branch_label(seg, target_vram, target_rom).seg,
                 ranges, targets \ {target_vram})

\* SymbolFunction::process_instr_analysis_result_referenced, the calls: a function at
\* every call target that a segment owns.
RECURSIVE process_func_calls(_, _)
process_func_calls(context, targets) ==
    IF targets = {} THEN context
    ELSE LET target_vram == CHOOSE x \in targets : \A y \in targets : x <= y
             referenced_segment == find_referenced_segment(context, target_vram)
             added == IF referenced_segment.some
                      THEN [context EXCEPT !.global_segment =
                               add_function(referenced_segment.v, target_vram, None).seg]
                      ELSE context
         IN  process_func_calls(added, targets \ {target_vram})

\* SymbolFunction::process_instr_analysis_result_referenced, the hi/lo pairs: a symbol
\* at every address that a segment owns, unless a symbol already covers it.
RECURSIVE process_lo_addresses(_, _)
process_lo_addresses(context, addresses) ==
    IF addresses = {} THEN context
    ELSE LET symbol_vram == CHOOSE x \in addresses : \A y \in addresses : x <= y
             referenced_segment == find_referenced_segment(context, symbol_vram)
             added == IF referenced_segment.some
                      THEN [context EXCEPT !.global_segment =
                               add_symbol(referenced_segment.v, symbol_vram, TRUE).seg]
                      ELSE context
         IN  process_lo_addresses(added, addresses \ {symbol_vram})

\* SymbolFunction::new: the context afterwards.
SymbolFunction_new(context, rom, vram, size_, instr_analysis) ==
    LET ranges == RomVramRange_new([start |-> rom, end |-> rom + size_],
                                   [start |-> vram, end |-> vram + size_])
        got == add_function(context.global_segment, vram, Some(rom))
        seg1 == [got.seg EXCEPT !.symbols[got.key].autodetected_size = Some(size_),
                                !.symbols[got.key].is_defined = TRUE]
        seg2 == process_instr_analysis_result_owned(seg1, ranges,
                                                    instr_analysis.branch_targets)
        context2 == [context EXCEPT !.global_segment = seg2]
    IN  process_lo_addresses(process_func_calls(context2, instr_analysis.func_calls),
                             instr_analysis.address_per_lo_instr)

\* SectionText::new in a fresh context: the section is known to hold `count` functions.
SectionTextNew ==
    /\ text.phase = "none"
    /\ sec.phase = "none"
    /\ \E count \in 1 .. MaxFunctions :
        text' = [phase |-> "building", count |-> count, functions |-> <<>>]
    /\ UNCHANGED <<ctx, sec, func, rangeVars, pipeVars, refVars, symVars>>

\* SectionText::new: SymbolFunction::new for the next function of the section.
SymbolFunctionNew ==
    /\ text.phase = "building"
    /\ LET n == Len(text.functions) + 1
           vram == function_vram(n)
           rom == SectionRom + (vram - SectionVram)
       IN  \E instr_analysis \in AnalysisResults(n) :
            /\ ctx' = SymbolFunction_new(ctx, rom, vram, FunctionSize, instr_analysis)
            /\ text' = [text EXCEPT
                          !.functions = Append(@, [vram |-> vram,
                                                   instr_analysis |-> instr_analysis]),
                          !.phase = IF n = text.count THEN "built" ELSE "building"]
    /\ UNCHANGED <<sec, func, rangeVars, pipeVars, refVars, symVars>>

(***************************************************************************)
(* One function and its instructions: FunctionSym::new, SymbolFunction::new *)
(***************************************************************************)

NoFunction == [phase |-> "none"]

MaxInstrs == 3

\* Where the function is: at the start of the section.
FunctionVram == SectionVram
FunctionRom == SectionRom

\* An address of the segment past every function of MaxInstrs instructions.
FarVram == FunctionVram + 4 * MaxInstrs + 4

\* An address of the segment past the function, in the middle of a doubleword.
FloatVram == FarVram + 4

\* The instructions a function is made of, as the decoder exposes them: the opcode, the
\* target of a branch or of a call, the immediate, the parity of the FPR of a float load.
Instructions ==
    {[op |-> "nop"], [op |-> "addu"], [op |-> "jr"]}
    \cup {[op |-> "beq", target |-> t] : t \in {FunctionVram + 4, FarVram}}
    \cup {[op |-> "jal", target |-> FarVram]}
    \cup {[op |-> "lui", imm |-> n] : n \in {0, 1, 65535}}
    \cup {[op |-> "addiu", imm |-> FloatVram]}
    \cup {[op |-> "lwc1", imm |-> FloatVram, ft |-> 1]}

Programs == UNION {[1 .. n -> Instructions] : n \in 1 .. MaxInstrs}

\* What the user declared about the function before it is built: nothing, or its size.
FunctionDeclarations == {None, Some(4), Some(4 * MaxInstrs)}

is_nop(instr) == instr.op = "nop"
has_delay_slot(instr) == instr.op \in {"beq", "jal", "jr"}
can_be_hi(instr) == instr.op = "lui"
can_be_lo(instr) == instr.op \in {"addiu", "lwc1"}
access_type(instr) == IF instr.op = "lwc1" THEN Some("FLOAT") ELSE None

\* Mutation of count_padding: the instruction before a nop is not looked at.
RECURSIVE count_nops_from(_, _)
count_nops_from(instructions, i) ==
    IF i < 2 THEN 0
    ELSE IF ~is_nop(instructions[i]) THEN 0
    ELSE 4 + count_nops_from(instructions, i - 1)

count_padding_no_delay_slot(instructions, user_declared_size) ==
    IF user_declared_size.some THEN 0
    ELSE count_nops_from(instructions, Len(instructions))

\* count_padding, the loop over the windows of two instructions, from the last one:
\* `i` is the second instruction of the window.
RECURSIVE count_padding_from(_, _)
count_padding_from(instructions, i) ==
    IF i < 2 THEN 0
    ELSE IF has_delay_slot(instructions[i - 1]) THEN 0
    ELSE IF ~is_nop(instructions[i]) THEN 0
    ELSE 4 + count_padding_from(instructions, i - 1)

count_padding(instructions, user_declared_size) ==
    IF user_declared_size.some THEN 0
    ELSE count_padding_from(instructions, Len(instructions))

\* The rom of instruction `i` of a function at `rom`.
instr_rom_of(rom, i) == rom + 4 * (i - 1)

\* InstructionAnalyzer: the lui that the instruction `i` is paired with, the nearest
\* one before it.
paired_hi(instructions, i) ==
    LET his == {j \in 1 .. i - 1 : can_be_hi(instructions[j])}
    IN  IF can_be_lo(instructions[i]) /\ his # {}
        THEN Some(CHOOSE j \in his : \A k \in his : k <= j) ELSE None

\* InstructionAnalyzer: the 32 bits value a pair builds, as its two halves.
pair_value(instructions, i) ==
    [hi |-> instructions[paired_hi(instructions, i).v].imm, lo |-> instructions[i].imm]

\* InstructionAnalyzer: a pair yields a live address when a segment owns it.
is_live(context, value) ==
    value.hi = 0 /\ in_vram_range(context.global_segment.ranges, value.lo)

\* The instructions of the function that build a live address, and those that build
\* a constant.
LoOfAddress(context, instructions) ==
    {i \in DOMAIN instructions :
        paired_hi(instructions, i).some /\ is_live(context, pair_value(instructions, i))}
LoOfConstant(context, instructions) ==
    {i \in DOMAIN instructions :
        paired_hi(instructions, i).some /\ ~is_live(context, pair_value(instructions, i))}

\* The lo instruction that gives its value to the lui `j`: the last one paired with it.
lo_of_hi(instructions, los, j) ==
    CHOOSE i \in los : paired_hi(instructions, i).v = j
                       /\ \A k \in los : paired_hi(instructions, k).v = j => k <= i

\* The index in the function of the instruction at `r`, and the roms of the
\* instructions of the indices `idx`.
index_of(rom, r) == ((r - rom) \div 4) + 1
roms_of(rom, idx) == {instr_rom_of(rom, i) : i \in idx}

\* The hi instructions that the lo instructions `los` are paired with.
hi_of(instructions, los) == {paired_hi(instructions, i).v : i \in los}

\* The address that the lo instruction `i` completes, and the accesses of the
\* instructions that complete the address `a`.
address_at(instructions, i) == pair_value(instructions, i).lo
accesses_at(instructions, lo_addr, a) ==
    {access_type(instructions[k]).v :
        k \in {j \in lo_addr : address_at(instructions, j) = a
                                /\ access_type(instructions[j]).some}}

\* The result of the analysis of the instructions of a function, as maps from the rom
\* of an instruction: `lo_addr` are the lo instructions that complete an address,
\* `lo_const` the ones that complete a constant.
analysis_maps(rom, vram_range, instructions, lo_addr, lo_const) ==
    [branch_targets |->
        [r \in roms_of(rom, {i \in DOMAIN instructions :
                                instructions[i].op = "beq"
                                /\ in_range(vram_range, instructions[i].target)}) |->
            instructions[index_of(rom, r)].target],
     branch_targets_outside |->
        [r \in roms_of(rom, {i \in DOMAIN instructions :
                                instructions[i].op = "beq"
                                /\ ~in_range(vram_range, instructions[i].target)}) |->
            instructions[index_of(rom, r)].target],
     func_calls |->
        [r \in roms_of(rom, {i \in DOMAIN instructions : instructions[i].op = "jal"}) |->
            instructions[index_of(rom, r)].target],
     hi_instrs |->
        [r \in roms_of(rom, {i \in DOMAIN instructions : can_be_hi(instructions[i])}) |->
            instructions[index_of(rom, r)].imm],
     address_per_lo_instr |->
        [r \in roms_of(rom, lo_addr) |-> address_at(instructions, index_of(rom, r))],
     address_per_hi_instr |->
        [r \in roms_of(rom, hi_of(instructions, lo_addr)) |->
            address_at(instructions, lo_of_hi(instructions, lo_addr, index_of(rom, r)))],
     constant_per_instr |->
        [r \in roms_of(rom, lo_const \cup (hi_of(instructions, lo_const)
                                            \ hi_of(instructions, lo_addr))) |->
            IF index_of(rom, r) \in lo_const
            THEN pair_value(instructions, index_of(rom, r))
            ELSE pair_value(instructions,
                            lo_of_hi(instructions, lo_const, index_of(rom, r)))],
     type_info_per_address |->
        [a \in {x \in {address_at(instructions, i) : i \in lo_addr} :
                  accesses_at(instructions, lo_addr, x) # {}} |->
            accesses_at(instructions, lo_addr, a)]]

\* The analysis of the instructions of a function.
analyze(context, ranges, instructions) ==
    analysis_maps(ranges.rom.start, ranges.vram, instructions,
                  LoOfAddress(context, instructions), LoOfConstant(context, instructions))

\* SymbolMetadata::add_reference_function: one more site references the symbol.
add_reference_function(sym) == [sym EXCEPT !.reference_counter = @ + 1]

\* SegmentMetadata::add_self_symbol, with the closure FunctionSym::new gives it: the
\* record of the function itself, and the padding counted from what the user declared.
add_self_symbol(seg, vram, rom, size_, instructions) ==
    LET got == add_symbol(seg, vram, FALSE)
        m == set_type(got.seg.symbols[got.key], "Function", "Autogenerated")
    IN  [seg |-> [got.seg EXCEPT !.symbols[got.key] =
                     [m EXCEPT !.rom = rom, !.autodetected_size = Some(size_),
                               !.is_defined = TRUE, !.section_type = Some("Text")]],
         key |-> got.key,
         padding |-> count_padding(instructions, m.user_declared_size)]

\* FunctionSym::process_instr_analysis_result_owned, one branch inside the function.
branch_target(seg, ranges, target_vram) ==
    LET got == add_symbol(seg, target_vram, FALSE)
        m == set_type(got.seg.symbols[got.key], "BranchLabel", "Autogenerated")
    IN  [seg EXCEPT !.symbols = [got.seg.symbols EXCEPT ![got.key] =
            [add_reference_function(
                [m EXCEPT !.rom = rom_from_vram(ranges, target_vram),
                          !.section_type = Some("Text")])
             EXCEPT !.is_defined = TRUE]]]

\* FunctionSym::process_instr_analysis_result_owned, one branch outside the function.
branch_target_outside(seg, ranges, target_vram) ==
    LET got == add_symbol(seg, target_vram, FALSE)
        m == set_type(got.seg.symbols[got.key], "BranchLabel", "Autogenerated")
    IN  [seg EXCEPT !.symbols = [got.seg.symbols EXCEPT ![got.key] =
            add_reference_function(add_reference_function(
                [m EXCEPT !.rom = rom_from_vram(ranges, target_vram),
                          !.section_type = Some("Text")]))]]

\* The smallest key of a non-empty set of roms.
first_rom(todo) == CHOOSE x \in todo : \A y \in todo : x <= y

\* FunctionSym::process_instr_analysis_result_owned: the branches, in rom order.
RECURSIVE branch_targets_loop(_, _, _, _)
branch_targets_loop(seg, ranges, targets, todo) ==
    IF todo = {} THEN seg
    ELSE branch_targets_loop(branch_target(seg, ranges, targets[first_rom(todo)]),
                             ranges, targets, todo \ {first_rom(todo)})

RECURSIVE branch_targets_outside_loop(_, _, _, _)
branch_targets_outside_loop(seg, ranges, targets, todo) ==
    IF todo = {} THEN seg
    ELSE branch_targets_outside_loop(
             branch_target_outside(seg, ranges, targets[first_rom(todo)]),
             ranges, targets, todo \ {first_rom(todo)})

FunctionSym_process_owned(seg, ranges, instr_analysis) ==
    branch_targets_outside_loop(
        branch_targets_loop(seg, ranges, instr_analysis.branch_targets,
                            DOMAIN instr_analysis.branch_targets),
        ranges, instr_analysis.branch_targets_outside,
        DOMAIN instr_analysis.branch_targets_outside)

\* FunctionSym::process_instr_analysis_result_referenced, one call.
func_call(context, target_vram) ==
    IF is_vram_ignored(context.global_segment, target_vram) THEN context
    ELSE LET got == add_symbol(find_referenced_segment(context, target_vram).v,
                               target_vram, FALSE)
             m == set_type(got.seg.symbols[got.key], "Function", "Autogenerated")
         IN  [context EXCEPT !.global_segment =
                [got.seg EXCEPT !.symbols[got.key] = add_reference_function(m)]]

RECURSIVE func_calls_loop(_, _, _)
func_calls_loop(context, targets, todo) ==
    IF todo = {} THEN context
    ELSE func_calls_loop(func_call(context, targets[first_rom(todo)]),
                         targets, todo \ {first_rom(todo)})

\* The access type of an address when the function accesses it in one way only.
sym_access_of(instr_analysis, symbol_vram) ==
    IF symbol_vram \in DOMAIN instr_analysis.type_info_per_address
       /\ Cardinality(instr_analysis.type_info_per_address[symbol_vram]) = 1
    THEN Some(CHOOSE a \in instr_analysis.type_info_per_address[symbol_vram] : TRUE)
    ELSE None

\* Unaligned accesses are aligned down; every other access keeps its address.
realigned_symbol_vram(sym_access, symbol_vram) ==
    IF sym_access.some /\ sym_access.v \in {"WORD_LEFT", "WORD_RIGHT"}
    THEN symbol_vram - (symbol_vram % 4)
    ELSE IF sym_access.some /\ sym_access.v \in {"DOUBLEWORD_LEFT", "DOUBLEWORD_RIGHT"}
    THEN symbol_vram - (symbol_vram % 8)
    ELSE symbol_vram

\* FunctionSym::process_instr_analysis_result_referenced, one address built by a lo
\* instruction. `acc` is the context and the access_type field of its symbols.
lo_address(acc, instr_analysis, symbol_vram) ==
    IF is_vram_ignored(acc.context.global_segment,
                       realigned_symbol_vram(sym_access_of(instr_analysis, symbol_vram),
                                             symbol_vram))
    THEN acc
    ELSE LET sym_access == sym_access_of(instr_analysis, symbol_vram)
             realigned == realigned_symbol_vram(sym_access, symbol_vram)
             got == add_symbol(find_referenced_segment(acc.context, realigned).v,
                               realigned, TRUE)
         IN  [context |-> [acc.context EXCEPT !.global_segment =
                             [got.seg EXCEPT !.symbols[got.key] =
                                 add_reference_function(@)]],
              access |-> IF sym_access.some /\ got.key \notin DOMAIN acc.access
                         THEN MapInsert(acc.access, got.key, sym_access.v)
                         ELSE acc.access]

RECURSIVE lo_addresses_loop(_, _, _)
lo_addresses_loop(acc, instr_analysis, todo) ==
    IF todo = {} THEN acc
    ELSE lo_addresses_loop(
             lo_address(acc, instr_analysis,
                        instr_analysis.address_per_lo_instr[first_rom(todo)]),
             instr_analysis, todo \ {first_rom(todo)})

FunctionSym_process_referenced(context, instr_analysis) ==
    lo_addresses_loop(
        [context |-> func_calls_loop(context, instr_analysis.func_calls,
                                     DOMAIN instr_analysis.func_calls),
         access |-> << >>],
        instr_analysis, DOMAIN instr_analysis.address_per_lo_instr)

\* FunctionSym::new, once the ranges, the analysis and the symbol of the function exist.
FunctionSym_result(done, self, ranges, instr_analysis) ==
    [context |-> done.context, access |-> done.access, padding |-> self.padding,
     ranges |-> ranges, instr_analysis |-> instr_analysis]

FunctionSym_with(context, ranges, instr_analysis, self) ==
    FunctionSym_result(
        FunctionSym_process_referenced(
            [context EXCEPT !.global_segment =
                FunctionSym_process_owned(self.seg, ranges, instr_analysis)],
            instr_analysis),
        self, ranges, instr_analysis)

FunctionSym_analyzed(context, instructions, rom, vram, ranges) ==
    FunctionSym_with(context, ranges, analyze(context, ranges, instructions),
                     add_self_symbol(context.global_segment, vram, Some(rom),
                                     4 * Len(instructions), instructions))

\* FunctionSym::new: (the context afterwards, the access types it set, the padding of
\* the function, its ranges, the analysis of its instructions).
FunctionSym_new(context, instructions, rom, vram) ==
    FunctionSym_analyzed(context, instructions, rom, vram,
        RomVramRange_new([start |-> rom, end |-> rom + 4 * Len(instructions)],
                         [start |-> vram, end |-> vram + 4 * Len(instructions)]))

\* SymbolType::valid_branch_target.
valid_branch_target(typ) ==
    typ \in {"Function", "BranchLabel", "JumptableLabel", "GccExceptTableLabel"}

\* The index of the instruction at `instr_rom` in the function.
reloc_index(ranges, instr_rom) == (instr_rom - ranges.rom.start) \div 4

\* relocs[instr_index as usize] = Some(..): the reloc of slot `i` after a loop over
\* `targets`, a map from the rom of an instruction to the address it refers to, when
\* the slot held `prev` before the loop.
set_reloc(prev, ranges, targets, reloc_type, i) ==
    IF \E r \in DOMAIN targets : reloc_index(ranges, r) + 1 = i
    THEN Some([reloc_type |-> reloc_type,
               address |-> targets[CHOOSE r \in DOMAIN targets :
                                      reloc_index(ranges, r) + 1 = i]])
    ELSE prev

\* The label of a branch is a valid target of a branch.
branch_is_valid(seg, ranges, target_vram) ==
    \E got \in {add_branch_label(seg, target_vram, rom_from_vram(ranges, target_vram))} :
        \E typ \in {SymbolMetadata_sym_type(got.seg.symbols[got.key])} :
            typ.some /\ valid_branch_target(typ.v)

\* The branches whose label is a valid target.
valid_branches(seg, ranges, targets) ==
    [r \in {x \in DOMAIN targets : branch_is_valid(seg, ranges, targets[x])} |->
        targets[r]]

\* SymbolFunction::new, the relocs of the branches, calls and pairs of the analysis:
\* the loops run in this order, and a later one overwrites the slot of an earlier one.
\* `inside` and `outside` are the branches whose label is a valid target.
relocs_of_analysis(relocs, ranges, instr_analysis, inside, outside) ==
    [i \in DOMAIN relocs |->
        set_reloc(set_reloc(set_reloc(set_reloc(set_reloc(relocs[i], ranges,
            inside, "R_MIPS_PC16", i),
            ranges, outside, "R_MIPS_PC16", i),
            ranges, instr_analysis.func_calls, "R_MIPS_26", i),
            ranges, instr_analysis.address_per_lo_instr, "R_MIPS_LO16", i),
            ranges, instr_analysis.address_per_hi_instr, "R_MIPS_HI16", i)]

analysis_relocs(relocs, seg, ranges, instr_analysis) ==
    CHOOSE out \in
        {relocs_of_analysis(relocs, ranges, instr_analysis, inside, outside) :
            inside \in {valid_branches(seg, ranges, instr_analysis.branch_targets)},
            outside \in {valid_branches(seg, ranges,
                                        instr_analysis.branch_targets_outside)}} : TRUE

\* Mutation of unpaired_luis: every lui.
unpaired_luis_all(instr_analysis) == DOMAIN instr_analysis.hi_instrs

\* The lui instructions that are neither paired nor part of a constant.
unpaired_luis(instr_analysis) ==
    {r \in DOMAIN instr_analysis.hi_instrs :
        r \notin DOMAIN instr_analysis.address_per_hi_instr
        /\ r \notin DOMAIN instr_analysis.constant_per_instr}

\* (hi_imm as u32) << 16, as the two halves of the 32 bits value.
hi_constant(hi_imm) == [hi |-> hi_imm % 65536, lo |-> 0]

\* SymbolFunction::generate_relocs_from_analyzer, the constants: the reloc of slot `i`
\* after the loop, when the slot held `prev` before it.
constant_reloc(prev, instr_analysis, ranges, instrs, i) ==
    IF \E r \in DOMAIN instr_analysis.constant_per_instr : reloc_index(ranges, r) + 1 = i
    THEN Some([reloc_type |-> IF can_be_hi(instrs[i])
                              THEN "R_CUSTOM_CONSTANT_HI" ELSE "R_CUSTOM_CONSTANT_LO",
               sym_name |-> instr_analysis.constant_per_instr[
                                CHOOSE r \in DOMAIN instr_analysis.constant_per_instr :
                                    reloc_index(ranges, r) + 1 = i]])
    ELSE prev

\* SymbolFunction::generate_relocs_from_analyzer, the unpaired lui instructions.
unpaired_reloc(prev, instr_analysis, ranges, i) ==
    IF \E r \in unpaired_luis(instr_analysis) : reloc_index(ranges, r) + 1 = i
    THEN Some([reloc_type |-> "R_CUSTOM_CONSTANT_HI",
               sym_name |-> hi_constant(instr_analysis.hi_instrs[
                                CHOOSE r \in unpaired_luis(instr_analysis) :
                                    reloc_index(ranges, r) + 1 = i])])
    ELSE prev

\* SymbolFunction::generate_relocs_from_analyzer: the constants, then the unpaired
\* lui instructions. The name of a constant is its value.
generate_relocs_from_analyzer(relocs, instr_analysis, ranges, instrs) ==
    [i \in DOMAIN relocs |->
        unpaired_reloc(constant_reloc(relocs[i], instr_analysis, ranges, instrs, i),
                       instr_analysis, ranges, i)]

\* The maps of the analysis that give an instruction a reloc.
reloc_sites(instr_analysis) ==
    DOMAIN instr_analysis.branch_targets \cup DOMAIN instr_analysis.branch_targets_outside
    \cup DOMAIN instr_analysis.func_calls \cup DOMAIN instr_analysis.address_per_lo_instr
    \cup DOMAIN instr_analysis.address_per_hi_instr
    \cup DOMAIN instr_analysis.constant_per_instr \cup DOMAIN instr_analysis.hi_instrs

Values(f) == {f[x] : x \in DOMAIN f}

\* SymbolFunction::new with its relocs, once the ranges and the analysis exist.
SymbolFunction_with(context, instructions, rom, vram, ranges, instr_analysis) ==
    [context |-> SymbolFunction_new(context, rom, vram, 4 * Len(instructions),
                    [branch_targets |-> Values(instr_analysis.branch_targets)
                                        \cup Values(instr_analysis.branch_targets_outside),
                     func_calls |-> Values(instr_analysis.func_calls),
                     address_per_lo_instr |-> Values(instr_analysis.address_per_lo_instr)]),
     panicked |-> \E r \in reloc_sites(instr_analysis) :
                     reloc_index(ranges, r) + 1 \notin DOMAIN instructions,
     relocs |-> CHOOSE relocs \in
                    {generate_relocs_from_analyzer(
                         analysis_relocs([i \in DOMAIN instructions |-> None], seg,
                                         ranges, instr_analysis),
                         instr_analysis, ranges, instructions) :
                     seg \in {add_function(context.global_segment, vram, Some(rom)).seg}} :
                    TRUE,
     ranges |-> ranges, instr_analysis |-> instr_analysis]

SymbolFunction_analyzed(context, instructions, rom, vram, ranges) ==
    SymbolFunction_with(context, instructions, rom, vram, ranges,
                        analyze(context, ranges, instructions))

\* SymbolFunction::new: (the context afterwards, whether an index was outside the
\* relocs, the relocs, the ranges, the analysis of the instructions).
SymbolFunction_new_relocs(context, instructions, rom, vram) ==
    SymbolFunction_analyzed(context, instructions, rom, vram,
        RomVramRange_new([start |-> rom, end |-> rom + 4 * Len(instructions)],
                         [start |-> vram, end |-> vram + 4 * Len(instructions)]))

\* The user declares, or not, the size of the function before it is built.
DeclareFunction ==
    /\ func.phase = "none"
    /\ sec.phase = "none"
    /\ text.phase = "none"
    /\ \E user_declared_size \in FunctionDeclarations :
        /\ ctx' = IF user_declared_size.some
                  THEN [ctx EXCEPT !.global_segment.symbols =
                          MapInsert(@, FunctionVram,
                              [SymbolMetadata_new("UserDeclared", FunctionVram)
                                 EXCEPT !.user_declared_size = user_declared_size])]
                  ELSE ctx
        /\ func' = [phase |-> "declared"]
    /\ UNCHANGED <<sec, text, rangeVars, pipeVars, refVars, symVars>>

\* FunctionSym::new for the function.
FunctionSymNew ==
    /\ func.phase = "declared"
    /\ \E instructions \in Programs :
        LET built == FunctionSym_new(ctx, instructions, FunctionRom, FunctionVram)
        IN  /\ ctx' = built.context
            /\ func' = [phase |-> "built", kind |-> "FunctionSym", before |-> ctx,
                        instructions |-> instructions, ranges |-> built.ranges,
                        instr_analysis |-> built.instr_analysis,
                        padding |-> built.padding, access |-> built.access]
    /\ UNCHANGED <<sec, text, rangeVars, pipeVars, refVars, symVars>>

\* SymbolFunction::new for the function.
SymbolFunctionNewRelocs ==
    /\ func.phase = "declared"
    /\ \E instructions \in Programs :
        LET built == SymbolFunction_new_relocs(ctx, instructions, FunctionRom, FunctionVram)
        IN  /\ ctx' = built.context
            /\ func' = [phase |-> IF built.panicked THEN "panicked" ELSE "built",
                        kind |-> "SymbolFunction", before |-> ctx,
                        instructions |-> instructions, ranges |-> built.ranges,
                        instr_analysis |-> built.instr_analysis,
                        relocs |-> built.relocs]
    /\ UNCHANGED <<sec, text, rangeVars, pipeVars, refVars, symVars>>

(***************************************************************************)
(* Specifications                                                          *)
(***************************************************************************)

Init ==
    /\ range = [state |-> "none"]
    /\ conv = NoConv
    /\ builder = SegmentBuilder_new(GlobalRanges, None)
    /\ lastAdd = NoCall
    /\ created = [k \in {} |-> 0]
    /\ segHeater = NotYet
    /\ finder = NotYet
    /\ lastPre = NoCall
    /\ gathered = [k \in {} |-> 0]
    /\ overlays = NotYet
    /\ ra = ReferencedAddress_new(0)
    /\ voted = [types |-> {}, sizes |-> {}, alignments |-> {}]
    /\ meta = SymbolMetadata_new("Autogenerated", SymVram)
    /\ declared = NothingDeclared
    /\ ctx = Context_new
    /\ sec = NoSection
    /\ text = NoText
    /\ func = NoFunction

RangeNext ==
    \/ NewRange
    \/ VramFromRom
    \/ RomFromVram
    \/ ConvertBack

Next ==
    \/ AddUserSymbol
    \/ FinishSymbols
    \/ NewFinderHeater
    \/ PreanalyzeText
    \/ PreanalyzeData
    \/ PreanalyzeRodata
    \/ PreanalyzeGccExceptTable
    \/ Process

RefNext ==
    \/ VoteType
    \/ VoteSize
    \/ VoteAlignment
    \/ IncrementReferences

SymNext ==
    \/ SetUserDeclaredName
    \/ SetUserDeclaredType
    \/ SetAutodetectedType
    \/ SetUserDeclaredSize
    \/ SetAutodetectedSize
    \/ ApplyToMetadata

DataNext ==
    \/ BuildContext
    \/ DataSectionNew
    \/ ScanWord
    \/ Materialize
    \/ SectionNoloadNew

TextNext ==
    \/ SectionTextNew
    \/ SymbolFunctionNew

FuncNext ==
    \/ DeclareFunction
    \/ FunctionSymNew
    \/ SymbolFunctionNewRelocs

\* The address algebra alone.
SpecRange == Init /\ [][RangeNext]_vars

\* The builder pipeline.
Spec == Init /\ [][Next]_vars

\* One ReferencedAddress alone.
SpecRef == Init /\ [][RefNext]_vars

\* One SymbolMetadata alone.
SpecSym == Init /\ [][SymNext]_vars

\* One data or noload section built in a context.
SpecData == Init /\ [][DataNext]_vars

\* One text section built in a fresh context.
SpecText == Init /\ [][TextNext]_vars

\* One function built from its instructions.
SpecFunc == Init /\ [][FuncNext]_vars

(***************************************************************************)
(* Claims about the address algebra (checked under SpecRange)              *)
(***************************************************************************)

\* C1, as stated: every RomVramRange that RomVramRange::new returns has vram and rom
\* ranges of the same size, the same start modulo 4, and both sizes non-zero.
C1_SameSize ==
    range.state = "built" =>
        /\ RangeSize(range.vram) = RangeSize(range.rom)
        /\ range.vram.start % 4 = range.rom.start % 4
        /\ RangeSize(range.rom) # 0
        /\ RangeSize(range.vram) # 0

\* C1, amended: every RomVramRange that RomVramRange::new returns has a vram range at
\* least as large as its rom range, the same start modulo 4, and both sizes non-zero.
C1_VramNotSmaller ==
    range.state = "built" =>
        /\ RangeSize(range.vram) >= RangeSize(range.rom)
        /\ range.vram.start % 4 = range.rom.start % 4
        /\ RangeSize(range.rom) # 0
        /\ RangeSize(range.vram) # 0

\* A range was returned whose vram range is larger than its rom range, at a start
\* that is not a multiple of 4.
C1_Witness ==
    /\ range.state = "built"
    /\ RangeSize(range.vram) > RangeSize(range.rom)
    /\ range.rom.start % 4 # 0

\* What the conversions are to return, stated on the bounds of the two ranges.
ExpectedVram(rom) ==
    IF range.rom.start <= rom /\ rom < range.rom.end
    THEN Some(range.vram.start + (rom - range.rom.start))
    ELSE None

ExpectedRom(vram) ==
    IF range.vram.start <= vram /\ vram < range.vram.end
    THEN Some(range.rom.start + (vram - range.vram.start))
    ELSE None

InsideRom(a) == range.rom.start <= a /\ a < range.rom.end
InsideVram(a) == range.vram.start <= a /\ a < range.vram.end

\* C2, as stated: vram_from_rom(rom) is Some(vram.start + (rom - rom.start)) iff rom is
\* in the rom range and None otherwise, rom_from_vram is symmetric, every address a
\* conversion returns lies inside the other range, and converting it back yields the
\* original address.
C2_RoundTrip ==
    /\ conv.op = "vram_fom_rom" =>
        /\ conv.res = ExpectedVram(conv.arg)
        /\ conv.res.some => InsideVram(conv.res.v)
        /\ conv.back => conv.res = Some(conv.orig)
    /\ conv.op = "rom_from_vram" =>
        /\ conv.res = ExpectedRom(conv.arg)
        /\ conv.res.some => InsideRom(conv.res.v)
        /\ conv.back => conv.res = Some(conv.orig)

\* C2, amended: vram_from_rom(rom) is Some(vram.start + (rom - rom.start)) iff rom is in
\* the rom range and None otherwise, and rom_from_vram is symmetric; an address that
\* vram_from_rom returns lies inside the vram range and converts back to the original
\* rom; an address that rom_from_vram(vram) returns lies inside the rom range, and
\* converts back to the original vram, exactly when vram - vram.start is smaller than
\* the size of the rom range, and converts back to None otherwise.
C2_RoundTripWithinRom ==
    /\ conv.op = "vram_fom_rom" =>
        /\ conv.res = ExpectedVram(conv.arg)
        /\ conv.res.some => InsideVram(conv.res.v)
        /\ conv.back =>
            IF conv.orig - range.vram.start < RangeSize(range.rom)
            THEN conv.res = Some(conv.orig)
            ELSE conv.res = None
    /\ conv.op = "rom_from_vram" =>
        /\ conv.res = ExpectedRom(conv.arg)
        /\ conv.res.some =>
            (InsideRom(conv.res.v) <=> conv.arg - range.vram.start < RangeSize(range.rom))
        /\ conv.back => conv.res = Some(conv.orig)

\* rom_from_vram returned an address, and converting it back gave None.
C2_Witness ==
    /\ conv.op = "vram_fom_rom"
    /\ conv.back
    /\ conv.res = None

(***************************************************************************)
(* Claims about the segment builder (checked under Spec)                   *)
(***************************************************************************)

\* A step from one live builder to a live builder is one add_user_symbol call, the
\* one lastAdd' describes.
IsAddStep == builder.state = "live" /\ builder'.state = "live"

RomOutside(c) ==
    c.rom.some /\ ~(builder.ranges.rom.start <= c.rom.v /\ c.rom.v < builder.ranges.rom.end)

VramOutside(c) ==
    ~(builder.ranges.vram.start <= c.vram /\ c.vram < builder.ranges.vram.end)

MapUnchanged == builder'.user_symbols = builder.user_symbols

\* C3, as stated: add_user_symbol fails with RomOutOfRange when rom is given and lies
\* outside the segment's rom range, and with VramOutOfRange when vram lies outside the
\* segment's vram range; in both cases the user-symbol map is left as it was.
C3_OutOfRange ==
    [][IsAddStep =>
        /\ RomOutside(lastAdd') =>
            lastAdd'.result.kind = "RomOutOfRange" /\ MapUnchanged
        /\ VramOutside(lastAdd') =>
            lastAdd'.result.kind = "VramOutOfRange" /\ MapUnchanged]_vars

\* C3, amended: add_user_symbol fails with RomOutOfRange when rom is given and lies
\* outside the segment's rom range, whatever the vram, and with VramOutOfRange when
\* vram lies outside the segment's vram range and rom is absent or inside the rom
\* range; in both cases the user-symbol map is left as it was.
C3_RomCheckedFirst ==
    [][IsAddStep =>
        /\ RomOutside(lastAdd') =>
            lastAdd'.result.kind = "RomOutOfRange" /\ MapUnchanged
        /\ (VramOutside(lastAdd') /\ ~RomOutside(lastAdd')) =>
            lastAdd'.result.kind = "VramOutOfRange" /\ MapUnchanged]_vars

\* A call with a vram outside the segment was refused while the map held a record.
C3_Witness ==
    /\ builder.state = "live"
    /\ lastAdd.op = "add_user_symbol"
    /\ lastAdd.result.kind = "VramOutOfRange"
    /\ DOMAIN builder.user_symbols # {}

\* C4, as stated: an add_user_symbol whose vram is the vram of a registered user symbol
\* returns Duplicated whatever name, rom or type is passed, and the existing record and
\* the number of records are unchanged.
C4_Duplicated ==
    [][(IsAddStep /\ lastAdd'.vram \in DOMAIN builder.user_symbols) =>
        /\ lastAdd'.result.kind = "Duplicated"
        /\ builder'.user_symbols[lastAdd'.vram] = builder.user_symbols[lastAdd'.vram]
        /\ Cardinality(DOMAIN builder'.user_symbols)
            = Cardinality(DOMAIN builder.user_symbols)]_vars

\* C4, amended: an add_user_symbol whose vram is the vram of a registered user symbol,
\* and whose rom is absent or inside the segment's rom range, returns Duplicated
\* whatever name or type is passed (with a rom outside the rom range it returns
\* RomOutOfRange); in both cases the existing record and the number of records are
\* unchanged.
C4_DuplicatedAfterRomCheck ==
    [][(IsAddStep /\ lastAdd'.vram \in DOMAIN builder.user_symbols) =>
        /\ lastAdd'.result.kind
            = IF RomOutside(lastAdd') THEN "RomOutOfRange" ELSE "Duplicated"
        /\ builder'.user_symbols[lastAdd'.vram] = builder.user_symbols[lastAdd'.vram]
        /\ Cardinality(DOMAIN builder'.user_symbols)
            = Cardinality(DOMAIN builder.user_symbols)]_vars

\* A declaration at the vram of a registered symbol, with another rom than the
\* record holds, was refused as Duplicated.
C4_Witness ==
    /\ builder.state = "live"
    /\ lastAdd.op = "add_user_symbol"
    /\ lastAdd.result.kind = "Duplicated"
    /\ lastAdd.vram \in DOMAIN builder.user_symbols
    /\ builder.user_symbols[lastAdd.vram].rom # lastAdd.rom

\* The registered symbols, other than the one at `vram`, whose extent holds `vram`.
Covering(vram) ==
    {k \in DOMAIN builder.user_symbols :
        LET siz == SymbolMetadata_size(builder.user_symbols[k])
        IN  k # vram /\ siz.some /\ k <= vram /\ vram < k + siz.v}

\* C5: a declaration at a vram strictly inside the extent of a registered symbol s
\* (its rom absent or inside the rom range, and no symbol registered at that vram)
\* succeeds only if s is a function and the new type is a label; in every other case,
\* a label inside a non-function symbol included, it fails with Overlap and inserts
\* nothing.
C5_OverlapPolicy ==
    [][(/\ IsAddStep
        /\ ~RomOutside(lastAdd')
        /\ lastAdd'.vram \notin DOMAIN builder.user_symbols
        /\ Covering(lastAdd'.vram) # {}) =>
        \/ /\ lastAdd'.result.kind = "Ok"
           /\ lastAdd'.typ.some /\ is_label(lastAdd'.typ.v)
           /\ \A k \in Covering(lastAdd'.vram) :
                SymbolMetadata_sym_type(builder.user_symbols[k]) = Some("Function")
        \/ /\ lastAdd'.result.kind = "Overlap"
           /\ MapUnchanged]_vars

\* C6: after any sequence of add_user_symbol calls the map holds one record per key,
\* each key is its record's vram and lies inside the segment's vram range, and each
\* record carries the name, the rom and GeneratedBy::UserDeclared of the one
\* successful call that created it.
C6_UserSymbolsMap ==
    builder.state = "live" =>
        \A k \in DOMAIN builder.user_symbols :
            LET sym == builder.user_symbols[k]
            IN  /\ sym.vram = k
                /\ builder.ranges.vram.start <= k /\ k < builder.ranges.vram.end
                /\ k \in DOMAIN created
                /\ created[k].calls = 1
                /\ sym.user_declared_name = Some(created[k].name)
                /\ sym.rom = created[k].rom
                /\ sym.generated_by = "UserDeclared"

\* Two records are registered, the second one with a rom, and the last call failed.
C6_Witness ==
    /\ builder.state = "live"
    /\ Cardinality(DOMAIN builder.user_symbols) = 2
    /\ \E k \in DOMAIN builder.user_symbols : builder.user_symbols[k].rom.some
    /\ lastAdd.op = "add_user_symbol"
    /\ lastAdd.result.kind \in {"Duplicated", "Overlap", "RomOutOfRange", "VramOutOfRange"}

(***************************************************************************)
(* Claims about the pipeline (checked under Spec)                          *)
(***************************************************************************)

\* C7: the phases occur in order and each transition consumes the phase before it:
\* once finish_symbols has been taken the builder is gone and nothing changes it
\* again, once process() has been taken the finder-heater is gone and nothing changes
\* it again, and the user-symbol map and the ranges handed to the next phase are
\* those held at the moment of the transition.
C7_PhaseOrder ==
    [][/\ segHeater.state # "none" => (builder.state = "moved" /\ builder' = builder)
       /\ finder.state # "none" => segHeater.state = "moved"
       /\ overlays.state # "none" => (finder.state = "moved" /\ finder' = finder)
       /\ (segHeater.state = "none" /\ segHeater'.state = "live") =>
            /\ segHeater'.user_symbols = builder.user_symbols
            /\ segHeater'.ranges = builder.ranges
       /\ (finder.state = "none" /\ finder'.state = "live") =>
            /\ finder'.global_segment.symbols = segHeater.user_symbols
            /\ finder'.global_segment.ranges = segHeater.ranges
       /\ (overlays.state = "none" /\ overlays'.state = "live") =>
            /\ overlays'.global_segment.symbols = finder.global_segment.symbols
            /\ overlays'.global_segment.ranges = finder.global_segment.ranges]_vars

\* Every phase has been passed: user symbols were declared, sections preheated, and
\* process() handed the segment with its symbols on.
C7_Witness ==
    /\ builder.state = "moved"
    /\ finder.state = "moved"
    /\ overlays.state = "live"
    /\ Cardinality(DOMAIN overlays.global_segment.symbols) = 2
    /\ lastPre.op # "none"

\* C8: a preanalyze_* call for a section whose rom was preheated before gives its
\* caller an AlreadyPreheated error carrying the section's rom and vram and the
\* segment name, and leaves the reference table as the first call made it.
C8_AlreadyPreheated ==
    [][(finder.state = "live" /\ finder'.state = "live" /\ lastPre'.already) =>
        /\ lastPre'.returned =
            [kind |-> "AlreadyPreheated", segment_name |-> finder.global_segment.name,
             section_rom |-> lastPre'.rom, section_vram |-> lastPre'.vram]
        /\ finder'.preheater.references = finder.preheater.references]_vars

\* C9: the references the preanalyze_* calls recorded are handed on by process(): the
\* value it returns carries the gathered reference table, attached to the global
\* segment or held by the value itself.
C9_ReferencesHandedOn ==
    overlays.state = "live" =>
        \/ overlays.global_segment.preheater.references = gathered
        \/ /\ "preheater" \in DOMAIN overlays
           /\ overlays.preheater.references = gathered

(***************************************************************************)
(* Claims about ReferencedAddress (checked under SpecRef)                  *)
(***************************************************************************)

\* C10: when sym_type() returns Some(t), the type histogram has exactly one entry and
\* it is t, the only type voted; once two distinct types have been voted sym_type()
\* returns None, however many votes each got.
C10_SingleType ==
    /\ sym_type(ra).some =>
        /\ DOMAIN ra.sym_type = {sym_type(ra).v}
        /\ voted.types = {sym_type(ra).v}
    /\ Cardinality(voted.types) >= 2 => sym_type(ra) = None

\* Two types have been voted, one of them twice and the other once.
C10_Witness ==
    \E t, u \in voted.types :
        /\ t # u
        /\ CountOf(ra.sym_type, t) = 2
        /\ CountOf(ra.sym_type, u) = 1

\* C11: for each of the three histograms (type, size, alignment), after any votes:
\* with exactly one entry the accessor returns Some, and with zero or several
\* entries it returns None.
C11_SingleEntryIsSome ==
    /\ sym_type(ra).some <=> Cardinality(DOMAIN ra.sym_type) = 1
    /\ size(ra).some <=> Cardinality(DOMAIN ra.sizes) = 1
    /\ alignment(ra).some <=> Cardinality(DOMAIN ra.alignments) = 1

\* C11 (amended): with exactly one entry the accessor returns that entry's key, which
\* for sizes and alignments is itself optional (None when the only votes were for
\* "no size" / "no alignment"); with zero or several entries it returns None.
C11_SingleEntryKey ==
    /\ sym_type(ra) = IF Cardinality(voted.types) = 1
                      THEN Some(CHOOSE t \in voted.types : TRUE) ELSE None
    /\ size(ra) = IF Cardinality(voted.sizes) = 1
                  THEN CHOOSE s \in voted.sizes : TRUE ELSE None
    /\ alignment(ra) = IF Cardinality(voted.alignments) = 1
                       THEN CHOOSE a \in voted.alignments : TRUE ELSE None

\* The size histogram holds the single entry None, voted twice, while the alignment
\* histogram holds two entries and the type histogram one.
C11_Witness ==
    /\ DOMAIN ra.sizes = {None}
    /\ ra.sizes[None] = 2
    /\ Cardinality(DOMAIN ra.alignments) = 2
    /\ Cardinality(DOMAIN ra.sym_type) = 1

(***************************************************************************)
(* Claims about SymbolMetadata (checked under SpecSym)                     *)
(***************************************************************************)

\* C16: after any sequence of type and size updates from either source, sym_type()
\* is the user-declared type whenever one has been set, however many autodetected
\* types were set before or after it, and the last autodetected type otherwise;
\* size() is the user-declared size when present and the autodetected size otherwise;
\* materializing a data symbol with a detected type never changes the user-declared
\* type.
C16_UserDeclaredWins ==
    [][/\ SymbolMetadata_sym_type(meta') =
            IF declared'.user_type.some THEN declared'.user_type ELSE declared'.auto_type
       /\ SymbolMetadata_size(meta') =
            IF declared'.user_size.some THEN declared'.user_size ELSE declared'.auto_size
       /\ declared'.last = "apply_to_metadata" =>
            meta'.user_declared_type = meta.user_declared_type]_vars

\* A user-declared type was set, and a data symbol was then materialized with a
\* different detected type; both sizes are set and differ.
C16_Witness ==
    /\ declared.last = "apply_to_metadata"
    /\ declared.user_type = Some("Jumptable")
    /\ declared.auto_type = Some("Function")
    /\ declared.user_size = Some(8)
    /\ declared.auto_size = Some(4)

\* C18: display_name is a function of the metadata: with a user-declared name it
\* prints that name, in double quotes iff the name contains '@'; without one it prints
\* the prefix of the type sym_type() reports (func_ for Function, .L for BranchLabel
\* and JumptableLabel, jtbl_ for Jumptable, ehtbl_ for GccExceptTable, $LEH_ for
\* GccExceptTableLabel) followed by the vram.
C18_DisplayName ==
    LET out == display_name(meta)
        name == meta.user_declared_name
        t == SymbolMetadata_sym_type(meta)
        prefix == IF t = Some("Function") THEN <<"f", "u", "n", "c", "_">>
                  ELSE IF t = Some("BranchLabel") THEN <<".", "L">>
                  ELSE IF t = Some("JumptableLabel") THEN <<".", "L">>
                  ELSE IF t = Some("Jumptable") THEN <<"j", "t", "b", "l", "_">>
                  ELSE IF t = Some("GccExceptTable") THEN <<"e", "h", "t", "b", "l", "_">>
                  ELSE IF t = Some("GccExceptTableLabel") THEN <<"$", "L", "E", "H", "_">>
                  ELSE <<>>
    IN  /\ (name.some /\ (\E i \in 1 .. Len(name.v) : name.v[i] = "@")) =>
            out = <<"\"">> \o name.v \o <<"\"">>
        /\ (name.some /\ ~(\E i \in 1 .. Len(name.v) : name.v[i] = "@")) => out = name.v
        /\ ~name.some =>
            /\ out = prefix \o Vram_display(meta.vram)
            /\ Len(out) = Len(prefix) + 8
            /\ (t.some /\ t.v # "UserCustom") => Len(prefix) > 0

\* A name containing '@' is declared on a symbol that also has types from both sources.
C18_Witness ==
    /\ meta.user_declared_name = Some(<<"s", "@", "m">>)
    /\ display_name(meta) = <<"\"", "s", "@", "m", "\"">>
    /\ meta.user_declared_type.some
    /\ meta.autodetected_type.some


(***************************************************************************)
(* Claims about the data and noload sections (checked under SpecData)      *)
(***************************************************************************)

\* C12: DataSection::new validates its input before it touches the context: empty
\* bytes are refused with EmptySection, otherwise a rom and a vram that differ modulo 4
\* are refused with RomVramAlignmentMismatch, and in both cases the context is the one
\* before the call; any other input is accepted.
C12_ValidatedBeforeContext ==
    (sec.phase # "none" /\ sec.phase # "ready" /\ sec.kind = "data") =>
        /\ (sec.result.kind = "EmptySection") = (Len(sec.args.raw_bytes) = 0)
        /\ (sec.result.kind = "RomVramAlignmentMismatch") =
               (Len(sec.args.raw_bytes) # 0 /\ sec.args.rom % 4 # sec.args.vram % 4)
        /\ sec.result.kind \in {"EmptySection", "RomVramAlignmentMismatch", "Ok"}
        /\ (sec.result.kind # "Ok") => (sec.phase = "error" /\ ctx = sec.before)

\* A misaligned section was refused in a context that knows of other addresses.
C12_Witness ==
    /\ sec.phase = "error"
    /\ sec.result.kind = "RomVramAlignmentMismatch"
    /\ DOMAIN sec.before.global_segment.references # {}
    /\ ctx = sec.before


\* C13: the symbols of a data section that was built tile it: the first one starts at
\* the vram of the section, none is empty, each one starts where the one before it ends,
\* the last one ends at the end of the section, and the rom of each one is the rom of
\* the section plus the symbol's offset in it.
C13_SymbolsTileSection ==
    (sec.phase = "built" /\ sec.kind = "data") =>
        LET syms == sec.data_symbols
            n == Len(syms)
        IN  /\ n >= 1
            /\ syms[1].ranges.vram.start = sec.args.vram
            /\ syms[n].ranges.vram.end = sec.args.vram + Len(sec.args.raw_bytes)
            /\ \A i \in 1 .. n :
                /\ syms[i].ranges.vram.start < syms[i].ranges.vram.end
                /\ syms[i].ranges.rom.start
                       = sec.args.rom + (syms[i].ranges.vram.start - sec.args.vram)
                /\ RangeSize(syms[i].ranges.rom) = RangeSize(syms[i].ranges.vram)
                /\ i < n => syms[i].ranges.vram.end = syms[i + 1].ranges.vram.start

\* A section of several words was cut into three symbols.
C13_Witness ==
    /\ sec.phase = "built"
    /\ sec.kind = "data"
    /\ Len(sec.data_symbols) = 3
    /\ sec.data_symbols[2].ranges.vram.start = sec.args.vram + 4


\* The addresses the symbols of the section that was built start at.
SymbolStarts ==
    IF sec.kind = "data" THEN {sec.data_symbols[i].ranges.vram.start : i \in DOMAIN sec.data_symbols}
    ELSE {sec.noload_symbols[i].vram_range.start : i \in DOMAIN sec.noload_symbols}

\* C14: in a data section that was built, every address of the section the segment
\* knew a reference at is the start of a symbol, whatever the length of the section.
C14_ReferencesAreCutPoints ==
    (sec.phase = "built" /\ sec.kind = "data") =>
        \A v \in ReferenceKeys(sec.before.global_segment) :
            (sec.args.vram <= v /\ v < sec.args.vram + Len(sec.args.raw_bytes))
                => v \in SymbolStarts


\* The range of the section that was built.
SectionStart == IF sec.kind = "data" THEN sec.args.vram ELSE sec.vram_range.start

SectionEnd ==
    IF sec.kind = "data" THEN sec.args.vram + Len(sec.args.raw_bytes) ELSE sec.vram_range.end

\* C15: in a data or noload section that was built, every symbol of the section the
\* user declared with a size that ends before the end of the section is followed by a
\* symbol that starts where it ends and is marked as the pad created by it.
C15_SizedSymbolsArePadded ==
    sec.phase = "built" =>
        \A v \in DOMAIN sec.before.global_segment.symbols :
            LET s == sec.before.global_segment.symbols[v]
                next_vram == s.vram + s.user_declared_size.v
            IN  (/\ s.user_declared_size.some
                 /\ SectionStart <= s.vram
                 /\ next_vram < SectionEnd)
                    => /\ next_vram \in SymbolStarts
                       /\ ctx.global_segment.symbols[next_vram].auto_created_pad_by
                              = Some(s.vram)


\* The word the scan is at, and the size of the string found there, rounded up to 4.
ScanVram == sec.args.vram + 4 * sec.i

ScanStringSize ==
    next_multiple_of(
        guess(None, ScanVram, SubSeq(sec.args.raw_bytes, 4 * sec.i + 1, Len(sec.args.raw_bytes)),
              FALSE).size, 4)

\* This step of the scan found a string at its word.
StringFound ==
    /\ sec.phase = "scanning"
    /\ ScanVram \in DOMAIN sec'.scan.symbols_info
    /\ sec'.scan.symbols_info[ScanVram] = Some("CString")

\* The word after the string is zero padding that no one references, and the string
\* ends at an address that is 4 modulo 8.
PaddingFollows ==
    LET end == ScanVram + ScanStringSize
        offset == 4 * sec.i + ScanStringSize
        next_ref == find_reference(ctx.global_segment, end, FALSE)
    IN  /\ end % 8 = 4
        /\ offset + 4 <= Len(sec.args.raw_bytes)
        /\ \A k \in offset + 1 .. offset + 4 : sec.args.raw_bytes[k] = 0
        /\ (~next_ref.some \/ next_ref.v.reference_counter = 0)

\* What follows the padding is known to be aligned to 8 by the compiler of the settings,
\* or is the end of the section.
AlignedSymbolFollows ==
    LET after == ScanVram + ScanStringSize + 4
    IN  IF after < sec.args.vram + Len(sec.args.raw_bytes)
        THEN /\ sec.args.compiler.some
             /\ after \in ReferenceKeys(ctx.global_segment)
             /\ ReferenceWrapper(ctx.global_segment, after).sym_type \in
                    {Some("Float64"), Some("DWord")}
        ELSE TRUE

\* The cut points after a step that found a string, when the padding is, or is not,
\* taken into the string.
StringCuts(absorbed) ==
    LET end == ScanVram + ScanStringSize
        next_vram == IF absorbed THEN end + 4 ELSE end
        other == IF absorbed THEN end ELSE end + 4
        declared_size == /\ ScanVram \in DOMAIN ctx.global_segment.symbols
                         /\ ctx.global_segment.symbols[ScanVram].user_declared_size.some
    IN  /\ sec'.scan.remaining_string_size + 4 <= ScanStringSize
        /\ sec'.scan.remaining_string_size + 4 > ScanStringSize - 4
        /\ next_vram < sec.args.vram + Len(sec.args.raw_bytes)
               => /\ next_vram \in DOMAIN sec'.scan.symbols_info
                  /\ next_vram \in DOMAIN sec'.scan.auto_pads
                  /\ sec'.scan.auto_pads[next_vram] = ScanVram
        /\ ~declared_size
               => other \notin (DOMAIN sec'.scan.symbols_info \ DOMAIN sec.scan.symbols_info)

\* C19 as stated: a step of the word scan that finds a string makes its word a CString
\* cut point of the size rounded up to 4, and takes the padding word that follows into
\* the string whenever that word is zero, unreferenced, and the string ends at 4 modulo
\* 8, with or without a compiler in the settings.
C19_PaddingAbsorbed ==
    [][StringFound => StringCuts(PaddingFollows)]_vars

\* C19, amended: the padding word is taken into the string only if, besides, what
\* follows it is the end of the section, or a symbol whose type the configured compiler
\* aligns to 8.
C19_PaddingAbsorbedIfAligned ==
    [][StringFound => StringCuts(PaddingFollows /\ AlignedSymbolFollows)]_vars

\* A string was found and its padding absorbed before a double, under a compiler; and
\* the section was built with the string and the double as its two symbols.
C19_Witness ==
    /\ sec.phase = "built"
    /\ sec.kind = "data"
    /\ sec.args.compiler.some
    /\ Len(sec.args.raw_bytes) = 12
    /\ symbols_info_vec(sec.scan)
           = <<[vram |-> SectionVram, typ |-> Some("CString")],
               [vram |-> SectionVram + 8, typ |-> None]>>
    /\ sec.scan.auto_pads[SectionVram + 8] = SectionVram


\* The word of this step starts a referenced Float32 or Float64 symbol.
ScanAtFloat ==
    LET a == find_reference(ctx.global_segment, ScanVram, FALSE)
    IN  a.some /\ IsFloat(a.v.sym_type)

\* C20: in each step of the word scan, a tentative detection of late rodata lasts only
\* if this word establishes it again (unreached Rodata, a float symbol whose padding
\* count plus one is its word count); late rodata becomes reached only when the previous
\* symbol is a Jumptable in a Rodata section, or when the word before left a tentative
\* detection and this word starts a referenced Float32 or Float64 symbol; once reached it
\* stays reached; and it is never reached in a section that is not Rodata.
C20_LateRodataTwoLevels ==
    [][sec.phase = "scanning" =>
        LET before == sec.scan
            after == sec'.scan
            prev_type == IF after.prev_sym_info.some THEN after.prev_sym_info.v.typ ELSE None
        IN  /\ after.maybe_reached_late_rodata =>
                /\ ~after.reached_late_rodata
                /\ sec.args.section_type = "Rodata"
                /\ IsFloat(prev_type)
                /\ after.float_padding_counter + 1 = after.float_counter
            /\ (after.reached_late_rodata /\ ~before.reached_late_rodata) =>
                \/ prev_type = Some("Jumptable") /\ sec.args.section_type = "Rodata"
                \/ before.maybe_reached_late_rodata /\ ScanAtFloat
            /\ before.reached_late_rodata => after.reached_late_rodata
            /\ sec.args.section_type # "Rodata" => ~after.reached_late_rodata
    ]_vars

\* A tentative detection after the first word was dropped after the second one, and
\* late rodata was not reached.
C20_Witness ==
    /\ sec.phase = "built"
    /\ sec.kind = "data"
    /\ Len(sec.trace) = 3
    /\ sec.trace[1] = [maybe |-> TRUE, reached |-> FALSE]
    /\ sec.trace[2] = [maybe |-> FALSE, reached |-> FALSE]
    /\ sec.trace[3] = [maybe |-> FALSE, reached |-> FALSE]


(***************************************************************************)
(* Claims about text sections (checked under SpecText)                     *)
(***************************************************************************)

\* The addresses the functions of the section start at.
FunctionStarts == {text.functions[i].vram : i \in DOMAIN text.functions}

\* C17: a text section built in a fresh context, all of whose call targets and hi/lo
\* addresses are starts of its own functions or outside the range of the segment,
\* leaves one symbol per function in the global segment, even when functions branch to
\* addresses inside themselves.
C17_OneSymbolPerFunction ==
    (/\ text.phase = "built"
     /\ \A i \in DOMAIN text.functions :
            \A v \in text.functions[i].instr_analysis.func_calls
                         \cup text.functions[i].instr_analysis.address_per_lo_instr :
                v \in FunctionStarts \/ ~in_vram_range(ctx.global_segment.ranges, v))
        => Cardinality(DOMAIN ctx.global_segment.symbols) = Len(text.functions)


\* The segment knew of one thing only before the section was built: a reference to a
\* Float32 at the start of the section.
OnlyFloatAtStart ==
    /\ DOMAIN sec.before.global_segment.symbols = {}
    /\ DOMAIN sec.before.global_segment.references = {SectionVram}
    /\ sym_type(sec.before.global_segment.references[SectionVram]) = Some("Float32")

\* C21: in a rodata section that starts with a referenced Float32, a run of floats
\* followed by one zero word leaves float_counter at the number of words scanned and
\* float_padding_counter at 1 after the zero word, and late rodata is not reached.
C21_FloatRunThenZero ==
    (/\ sec.phase \in {"found", "built"}
     /\ sec.kind = "data"
     /\ sec.args.section_type = "Rodata"
     /\ OnlyFloatAtStart
     /\ \E k \in 1 .. MaxFloats : sec.args.raw_bytes = FloatRun(k, 1))
        => /\ sec.scan.float_counter = Len(sec.args.raw_bytes) \div 4
           /\ sec.scan.float_padding_counter = 1
           /\ ~sec.scan.reached_late_rodata
           /\ \A n \in DOMAIN sec.trace : ~sec.trace[n].reached

\* Four floats and a zero word were scanned under a compiler that has late rodata.
C21_Witness ==
    /\ sec.phase = "built"
    /\ sec.kind = "data"
    /\ sec.args.section_type = "Rodata"
    /\ sec.args.compiler.some
    /\ OnlyFloatAtStart
    /\ sec.args.raw_bytes = FloatRun(4, 1)
    /\ sec.scan.float_counter = 5
    /\ sec.scan.float_padding_counter = 1
    /\ sec.trace[1].maybe


\* The section is scanned by the simpler algorithm of find_symbols.
SimplerScan ==
    /\ sec.phase \in {"found", "built"}
    /\ sec.kind = "data"
    /\ (SectionStart % 4 # 0 \/ sec.args.section_type = "GccExceptTable")

\* The owning segment as find_symbols sees it: the one of the context at the call, with
\* the symbol DataSection::new adds at the section start.
ScanSegment ==
    ScanInput(sec, DataSection_new_begin(sec.before, sec.args.raw_bytes, sec.args.rom,
                                         sec.args.vram).context).seg

\* The references of the owning segment inside the section.
SectionReferences ==
    find_references_range(ScanSegment, [start |-> SectionStart, end |-> SectionEnd])

\* The references of the section whose size is known and whose end is inside the section.
SizedInside ==
    {v \in SectionReferences :
        LET reference == ReferenceWrapper(ScanSegment, v)
        IN  reference.size.some
            /\ in_range([start |-> SectionStart, end |-> SectionEnd], v + reference.size.v)}

ReferenceEnd(v) == v + ReferenceWrapper(ScanSegment, v).size.v

\* C22: in a GccExceptTable section, and in a section whose start is not a multiple of 4,
\* the cut points of find_symbols are exactly the section start, the references of the
\* segment inside the section and the ends of the sized references that lie inside the
\* section, each end being an auto-pad of its reference; the contents are not looked at,
\* and a cut point is a CString only when the reference at it is one.
C22_SimplerScanCuts ==
    SimplerScan =>
        /\ DOMAIN sec.scan.symbols_info
             = {SectionStart} \cup SectionReferences \cup {ReferenceEnd(v) : v \in SizedInside}
        /\ DOMAIN sec.scan.auto_pads = {ReferenceEnd(v) : v \in SizedInside}
        /\ \A e \in DOMAIN sec.scan.auto_pads :
              sec.scan.auto_pads[e] \in SizedInside /\ ReferenceEnd(sec.scan.auto_pads[e]) = e
        /\ \A v \in DOMAIN sec.scan.symbols_info :
              sec.scan.symbols_info[v] = Some("CString")
                 => (v \in SectionReferences
                     /\ ReferenceWrapper(ScanSegment, v).sym_type = Some("CString"))
        /\ sec.trace = <<>>

\* An exception table whose first word points into the section, with a sized reference
\* inside it: the pointed-to address is no cut point, the end of the reference is one.
C22_Witness ==
    /\ SimplerScan
    /\ sec.args.section_type = "GccExceptTable"
    /\ sec.args.raw_bytes = <<0, 0, 0, SectionVram + 4>> \o Zeros(4)
    /\ SectionVram + 4 \notin DOMAIN sec.scan.symbols_info
    /\ sec.scan.auto_pads # << >>

(***************************************************************************)
\* The symbols of the noload section tile its range: the first starts where the range
\* starts, each one ends where the next starts, and the last ends where the range ends.
NoloadTiles ==
    /\ sec.noload_symbols # <<>>
    /\ sec.noload_symbols[1].vram_range.start = sec.vram_range.start
    /\ sec.noload_symbols[Len(sec.noload_symbols)].vram_range.end = sec.vram_range.end
    /\ \A i \in 1 .. Len(sec.noload_symbols) - 1 :
          sec.noload_symbols[i].vram_range.end = sec.noload_symbols[i + 1].vram_range.start

\* Symbol `i` of the noload section is not empty, lies inside the range of the section,
\* and its metadata is defined and has its size.
NoloadSymbolOk(i) ==
    /\ sec.noload_symbols[i].vram_range.start < sec.noload_symbols[i].vram_range.end
    /\ sec.vram_range.start <= sec.noload_symbols[i].vram_range.start
    /\ sec.noload_symbols[i].vram_range.end <= sec.vram_range.end
    /\ sec.noload_symbols[i].vram_range.start \in DOMAIN ctx.global_segment.symbols
    /\ ctx.global_segment.symbols[sec.noload_symbols[i].vram_range.start].is_defined
    /\ ctx.global_segment.symbols[sec.noload_symbols[i].vram_range.start].autodetected_size
          = Some(RangeSize(sec.noload_symbols[i].vram_range))

\* C29: SectionNoload::new, for any user symbols and user-declared sizes of the segment,
\* returns without a panic a section whose symbols are not empty, lie inside the range
\* of the section and tile it, and whose metadata is defined and has the size of the
\* symbol; a user-declared size that goes past the end of the section makes no cut.
C29_NoloadTilesRange ==
    (sec.phase \in {"built", "panicked"} /\ sec.kind = "noload") =>
        /\ sec.phase = "built"
        /\ NoloadTiles
        /\ \A i \in DOMAIN sec.noload_symbols : NoloadSymbolOk(i)

\* The same, for the sections that SectionNoload::new returns.
NoloadBuiltTilesRange ==
    (sec.phase = "built" /\ sec.kind = "noload") =>
        /\ NoloadTiles
        /\ \A i \in DOMAIN sec.noload_symbols : NoloadSymbolOk(i)

(* Claims about one function (checked under SpecFunc)                      *)
(***************************************************************************)

\* The size the user declared for the function before it was built.
DeclaredFunctionSize ==
    IF FunctionVram \in DOMAIN func.before.global_segment.symbols
    THEN func.before.global_segment.symbols[FunctionVram].user_declared_size
    ELSE None

\* Instruction `i` ends the function with nops only, none of them in a delay slot.
TrailingNop(i) ==
    \A j \in i .. Len(func.instructions) :
        is_nop(func.instructions[j]) /\ ~has_delay_slot(func.instructions[j - 1])

\* C23: the padding FunctionSym::new counts is 0 when the user declared the size of the
\* function; otherwise it is 4 bytes for every nop of the run of nops that ends the
\* function, the run stopping at the first instruction that is not a nop or that is in
\* the delay slot of the one before it, and the first instruction never being counted;
\* it is a multiple of 4 and strictly smaller than the size of the function.
C23_TrailingNopsArePadding ==
    (func.phase = "built" /\ func.kind = "FunctionSym") =>
        /\ DeclaredFunctionSize.some => func.padding = 0
        /\ ~DeclaredFunctionSize.some =>
              func.padding
                = 4 * Cardinality({i \in 2 .. Len(func.instructions) : TrailingNop(i)})
        /\ func.padding % 4 = 0
        /\ func.padding < 4 * Len(func.instructions)

\* A jump, its delay slot and one more nop: only the last nop is padding.
C23_Witness ==
    /\ func.phase = "built"
    /\ func.kind = "FunctionSym"
    /\ ~DeclaredFunctionSize.some
    /\ func.instructions = <<[op |-> "jr"], [op |-> "nop"], [op |-> "nop"]>>
    /\ func.padding = 4

(***************************************************************************)
\* The rom of instruction `i` of the function, and the reloc of that instruction.
RomOfInstr(i) == func.ranges.rom.start + 4 * (i - 1)
RelocOf(i) == func.relocs[i]

\* Instruction `i` is a lui that is neither paired into an address nor part of a
\* constant.
UnpairedLui(i) ==
    /\ func.instructions[i].op = "lui"
    /\ RomOfInstr(i) \notin DOMAIN func.instr_analysis.address_per_hi_instr
    /\ RomOfInstr(i) \notin DOMAIN func.instr_analysis.constant_per_instr

\* The reloc of instruction `i`, if it has one, is of a kind its opcode can have, and
\* refers to what the instruction itself refers to.
RelocBelongs(i) ==
    RelocOf(i).some =>
        \/ /\ RelocOf(i).v.reloc_type = "R_MIPS_PC16"
           /\ func.instructions[i].op = "beq"
           /\ RelocOf(i).v.address = func.instructions[i].target
        \/ /\ RelocOf(i).v.reloc_type = "R_MIPS_26"
           /\ func.instructions[i].op = "jal"
           /\ RelocOf(i).v.address = func.instructions[i].target
        \/ /\ RelocOf(i).v.reloc_type \in {"R_MIPS_LO16"}
           /\ can_be_lo(func.instructions[i])
           /\ RelocOf(i).v.address = func.instructions[i].imm
        \/ /\ RelocOf(i).v.reloc_type = "R_CUSTOM_CONSTANT_LO"
           /\ can_be_lo(func.instructions[i])
           /\ RelocOf(i).v.sym_name.lo = func.instructions[i].imm
        \/ /\ RelocOf(i).v.reloc_type = "R_MIPS_HI16"
           /\ func.instructions[i].op = "lui"
           /\ func.instructions[i].imm = 0
        \/ /\ RelocOf(i).v.reloc_type = "R_CUSTOM_CONSTANT_HI"
           /\ func.instructions[i].op = "lui"
           /\ RelocOf(i).v.sym_name.hi = func.instructions[i].imm

\* C26: SymbolFunction::new gives every lui that is neither paired into an address nor
\* part of a constant an R_CUSTOM_CONSTANT_HI reloc whose value is its unsigned 16 bits
\* immediate shifted left by 16 on 32 bits; every reloc is stored at the index of its
\* instruction, (instr_rom - rom of the function) / 4, which is always inside the list
\* of relocs, of one optional reloc per instruction.
C26_UnpairedLuiIsConstant ==
    (func.phase \in {"built", "panicked"} /\ func.kind = "SymbolFunction") =>
        /\ func.phase = "built"
        /\ Len(func.relocs) = Len(func.instructions)
        /\ \A i \in DOMAIN func.instructions :
              /\ UnpairedLui(i) =>
                    RelocOf(i) = Some([reloc_type |-> "R_CUSTOM_CONSTANT_HI",
                                       sym_name |-> [hi |-> func.instructions[i].imm,
                                                     lo |-> 0]])
              /\ (func.instructions[i].op = "lui" /\ ~UnpairedLui(i)) =>
                    RelocOf(i) # Some([reloc_type |-> "R_CUSTOM_CONSTANT_HI",
                                       sym_name |-> [hi |-> func.instructions[i].imm,
                                                     lo |-> 0]])
              /\ RelocBelongs(i)
              /\ func.instructions[i].op \in {"nop", "addu", "jr"} => ~RelocOf(i).some
              /\ func.instructions[i].op \in {"beq", "jal", "lui"} => RelocOf(i).some

\* A pair that builds an address, then a lui alone with the largest immediate.
C26_Witness ==
    /\ func.phase = "built"
    /\ func.kind = "SymbolFunction"
    /\ func.instructions = <<[op |-> "lui", imm |-> 0], [op |-> "addiu", imm |-> FloatVram],
                             [op |-> "lui", imm |-> 65535]>>
    /\ RelocOf(1) = Some([reloc_type |-> "R_MIPS_HI16", address |-> FloatVram])
    /\ RelocOf(3) = Some([reloc_type |-> "R_CUSTOM_CONSTANT_HI",
                          sym_name |-> [hi |-> 65535, lo |-> 0]])

\* Instruction `i` of the function is an lwc1 on an odd register whose lo half
\* completes an address that is 4 modulo 8.
MidDoubleAccess(i) ==
    /\ func.instructions[i].op = "lwc1"
    /\ func.instructions[i].ft % 2 = 1
    /\ RomOfInstr(i) \in DOMAIN func.instr_analysis.address_per_lo_instr
    /\ func.instr_analysis.address_per_lo_instr[RomOfInstr(i)] % 8 = 4

\* The address that instruction `i` completes.
AddressOfInstr(i) == func.instr_analysis.address_per_lo_instr[RomOfInstr(i)]

\* C27: when a function has an lwc1 on an odd register whose address is 4 modulo 8,
\* FunctionSym::new records the reference at the multiple of 8 before it, with the
\* access DOUBLEFLOAT, and leaves no symbol at the address in the middle of the
\* double.
C27_Mips1DoubleRealigned ==
    (func.phase = "built" /\ func.kind = "FunctionSym") =>
        \A i \in DOMAIN func.instructions :
            MidDoubleAccess(i) =>
                /\ AddressOfInstr(i) - 4 \in DOMAIN ctx.global_segment.symbols
                /\ AddressOfInstr(i) - 4 \in DOMAIN func.access
                /\ func.access[AddressOfInstr(i) - 4] = "DOUBLEFLOAT"
                /\ AddressOfInstr(i) \notin DOMAIN ctx.global_segment.symbols

\* The sites of a map from the rom of an instruction to its target that aim at `vram`.
SitesOf(targets, vram) == Cardinality({r \in DOMAIN targets : targets[r] = vram})

\* The sites of the function that aim at `vram`: branches inside the function,
\* branches outside of it, calls, and lo instructions.
SitesAt(vram) ==
    SitesOf(func.instr_analysis.branch_targets, vram)
    + SitesOf(func.instr_analysis.branch_targets_outside, vram)
    + SitesOf(func.instr_analysis.func_calls, vram)
    + SitesOf(func.instr_analysis.address_per_lo_instr, vram)

\* The reference counter of the symbol at `vram` before the function was built.
CounterBefore(vram) ==
    IF vram \in DOMAIN func.before.global_segment.symbols
    THEN func.before.global_segment.symbols[vram].reference_counter
    ELSE 0

\* C28: once FunctionSym::new has processed a function, the reference counter of every
\* symbol has grown by the number of sites of the function that aim at it: a branch, a
\* call or a lo instruction counts once, also a branch whose target is outside the
\* function.
C28_CounterIsSites ==
    (func.phase = "built" /\ func.kind = "FunctionSym") =>
        \A vram \in DOMAIN ctx.global_segment.symbols :
            ctx.global_segment.symbols[vram].reference_counter
                = CounterBefore(vram) + SitesAt(vram)

\* The same, for the functions that have no branch outside of themselves.
CounterIsSitesWithoutOutside ==
    (func.phase = "built" /\ func.kind = "FunctionSym"
     /\ DOMAIN func.instr_analysis.branch_targets_outside = {}) =>
        \A vram \in DOMAIN ctx.global_segment.symbols :
            ctx.global_segment.symbols[vram].reference_counter
                = CounterBefore(vram) + SitesAt(vram)

(* Claims about the relocs of data symbols (checked under SpecData)        *)
(***************************************************************************)

\* The segment when DataSection::new starts building its symbol `n`.
RECURSIVE SegmentBefore(_)
SegmentBefore(n) ==
    IF n = 1 THEN ScanSegment
    ELSE data_symbol([seg |-> SegmentBefore(n - 1), data_symbols |-> <<>>],
                     symbols_info_vec(sec.scan), sec.scan.auto_pads, sec.args.raw_bytes,
                     sec.args.rom, sec.args.vram, sec.args.section_type,
                     sec.before.global_config.endian, n - 1).seg

\* Symbol `n` of the section: where it starts, its type once SymbolData::new has set
\* its metadata, and the value of its word `i` (from 0).
SymVramOf(n) == symbols_info_vec(sec.scan)[n].vram
SymRomOf(n) == sec.args.rom + (SymVramOf(n) - sec.args.vram)
SymTypeOf(n) ==
    SymbolMetadata_sym_type(
        apply_to_metadata([auto_pad_by |-> None,
                           detected_type |-> symbols_info_vec(sec.scan)[n].typ],
                          IF SymVramOf(n) \in DOMAIN SegmentBefore(n).symbols
                          THEN SegmentBefore(n).symbols[SymVramOf(n)]
                          ELSE SymbolMetadata_new("Autogenerated", SymVramOf(n))))
WordOf(n, i) ==
    word_from_bytes(sec.before.global_config.endian,
                    SubSeq(sec.data_symbols[n].raw_bytes, 4 * i + 1, 4 * i + 4))

\* The symbol of `seg` that `vram` resolves to: the nearest one at or below it, when
\* it starts at `vram` or is sized and contains it.
ResolvesTo(seg, vram, k) ==
    /\ k \in DOMAIN seg.symbols
    /\ k <= vram
    /\ \A other \in DOMAIN seg.symbols : other <= vram => other <= k
    /\ \/ k = vram
       \/ /\ SymbolMetadata_size(seg.symbols[k]).some
          /\ vram < k + SymbolMetadata_size(seg.symbols[k]).v

\* Word `i` of symbol `n` is a valid reference: its value is in the range of the
\* segment and resolves to a symbol, at its start, or inside it when its type, if it
\* has one, may have an addend.
ValidReference(n, i) ==
    /\ in_vram_range(ScanSegment.ranges, WordOf(n, i))
    /\ \E k \in DOMAIN SegmentBefore(n + 1).symbols :
          /\ ResolvesTo(SegmentBefore(n + 1), WordOf(n, i), k)
          /\ \/ k = WordOf(n, i)
             \/ ~SymbolMetadata_sym_type(SegmentBefore(n + 1).symbols[k]).some
             \/ may_have_addend(SymbolMetadata_sym_type(SegmentBefore(n + 1).symbols[k]).v)

\* An address that a symbol of the segment, as the section left it, covers.
CoveredBySymbol(vram) ==
    \E k \in DOMAIN ctx.global_segment.symbols : ResolvesTo(ctx.global_segment, vram, k)

\* C24: in a data symbol that is not a jumptable, word i has an R_MIPS_32 reloc to its
\* value if and only if the rom of the symbol is word-aligned, the type of the symbol,
\* if it has one, can reference symbols, and the word is a valid reference; every such
\* reloc targets an address that a symbol of the segment covers, and the reloc list has
\* len(raw_bytes) / 4 slots.
C24_WordRelocs ==
    (sec.phase = "built" /\ sec.kind = "data") =>
        \A n \in DOMAIN sec.data_symbols :
            SymTypeOf(n) # Some("Jumptable") =>
                /\ Len(sec.data_symbols[n].relocs) = Len(sec.data_symbols[n].raw_bytes) \div 4
                /\ \A i \in 0 .. Len(sec.data_symbols[n].relocs) - 1 :
                      IF /\ SymRomOf(n) % 4 = 0
                         /\ (SymTypeOf(n).some => can_reference_symbols(SymTypeOf(n).v))
                         /\ ValidReference(n, i)
                      THEN /\ sec.data_symbols[n].relocs[i + 1]
                                = Some([reloc_type |-> "R_MIPS_32", address |-> WordOf(n, i)])
                           /\ CoveredBySymbol(WordOf(n, i))
                      ELSE sec.data_symbols[n].relocs[i + 1] = None

\* A symbol whose word points into a jumptable built before it: the word has no reloc,
\* although a symbol contains its value.
C24_Witness ==
    /\ sec.phase = "built"
    /\ sec.kind = "data"
    /\ \E n \in DOMAIN sec.data_symbols :
          /\ SymTypeOf(n) # Some("Jumptable")
          /\ SymRomOf(n) % 4 = 0
          /\ SymTypeOf(n).some => can_reference_symbols(SymTypeOf(n).v)
          /\ \E i \in 0 .. Len(sec.data_symbols[n].relocs) - 1 :
                /\ in_vram_range(ScanSegment.ranges, WordOf(n, i))
                /\ \E k \in DOMAIN SegmentBefore(n + 1).symbols :
                       ResolvesTo(SegmentBefore(n + 1), WordOf(n, i), k)
                /\ ~ValidReference(n, i)
                /\ sec.data_symbols[n].relocs[i + 1] = None

\* The symbols of the section that SymbolData::new builds as jumptables.
Jumptables ==
    {n \in DOMAIN sec.data_symbols : SymTypeOf(n) = Some("Jumptable")}

\* Word `i` of the jumptable `n` has a reloc to its value, and a symbol that the table
\* typed JumptableLabel starts at that value.
HasLabel(n, i) ==
    /\ sec.data_symbols[n].relocs[i + 1]
         = Some([reloc_type |-> "R_MIPS_32", address |-> WordOf(n, i)])
    /\ WordOf(n, i) \in DOMAIN SegmentBefore(n + 1).symbols
    /\ SegmentBefore(n + 1).symbols[WordOf(n, i)].autodetected_type = Some("JumptableLabel")

\* C25, as stated: every word of a jumptable has a reloc to its target and a
\* JumptableLabel symbol at the target, wherever the target lies.
C25_EveryWordHasLabel ==
    (sec.phase = "built" /\ sec.kind = "data") =>
        \A n \in Jumptables :
            /\ Len(sec.data_symbols[n].relocs) = Len(sec.data_symbols[n].raw_bytes) \div 4
            /\ SymRomOf(n) % 4 = 0 =>
                  \A i \in 0 .. Len(sec.data_symbols[n].relocs) - 1 : HasLabel(n, i)

\* C25, amended: a word of a jumptable whose rom is word-aligned has a reloc to its
\* target and a JumptableLabel symbol at the target when the target lies in the vram
\* range of the owning segment, whatever symbols exist at or around the target; a word
\* whose target lies outside that range has no reloc.
C25_WordsInSegmentHaveLabel ==
    (sec.phase = "built" /\ sec.kind = "data") =>
        \A n \in Jumptables :
            /\ Len(sec.data_symbols[n].relocs) = Len(sec.data_symbols[n].raw_bytes) \div 4
            /\ SymRomOf(n) % 4 = 0 =>
                  \A i \in 0 .. Len(sec.data_symbols[n].relocs) - 1 :
                      IF in_vram_range(ScanSegment.ranges, WordOf(n, i))
                      THEN HasLabel(n, i)
                      ELSE sec.data_symbols[n].relocs[i + 1] = None

\* A jumptable with a word that points inside the table itself, where no symbol
\* started before, and a word that points outside the segment.
C25_Witness ==
    /\ sec.phase = "built"
    /\ sec.kind = "data"
    /\ \E n \in Jumptables :
          /\ SymRomOf(n) % 4 = 0
          /\ \E i, j \in 0 .. Len(sec.data_symbols[n].relocs) - 1 :
                /\ HasLabel(n, i)
                /\ WordOf(n, i) \notin DOMAIN SegmentBefore(n).symbols
                /\ SymVramOf(n) < WordOf(n, i)
                /\ WordOf(n, i) < SymVramOf(n) + Len(sec.data_symbols[n].raw_bytes)
                /\ ~in_vram_range(ScanSegment.ranges, WordOf(n, j))
                /\ sec.data_symbols[n].relocs[j + 1] = None

\* The words of the jumptable `n` whose label was registered, in order.
LabelWords(n) ==
    {i \in 0 .. Len(sec.data_symbols[n].relocs) - 1 :
        in_vram_range(ScanSegment.ranges, WordOf(n, i))}

\* The word whose label was registered by the `j`-th call of add_reference_symbol.
LabelWord(n, j) ==
    CHOOSE i \in LabelWords(n) : Cardinality({k \in LabelWords(n) : k < i}) = j - 1

\* C30: the site a jumptable records for the label of its word i is the rom of that
\* word, the rom of the symbol plus 4 * i.
C30_SiteIsRomOfWord ==
    (sec.phase = "built" /\ sec.kind = "data") =>
        \A n \in Jumptables :
            SymRomOf(n) % 4 = 0 =>
                /\ Len(sec.data_symbols[n].sites) = Cardinality(LabelWords(n))
                /\ \A j \in DOMAIN sec.data_symbols[n].sites :
                      /\ sec.data_symbols[n].sites[j].label = WordOf(n, LabelWord(n, j))
                      /\ sec.data_symbols[n].sites[j].rom = SymRomOf(n) + 4 * LabelWord(n, j)

====
